---- MODULE Spec2Model ----
(***************************************************************************)
(* Remote stateful execution service of n8n-nodes-everything-ai            *)
(* (Playwright remote execution server and its client).                    *)
(*                                                                         *)
(* The module holds its specifications over one set of variables:          *)
(*   SpecAuth     the connection handler of the server (shared-secret      *)
(*                handshake, hand-over to the dnode RPC layer), with time; *)
(*   SpecAuthBytes  the same handler receiving multi-byte characters       *)
(*                split over chunks;                                       *)
(*   SpecAuthEarly  the earlier connection handler (pipe before the 'data' *)
(*                listeners are removed);                                  *)
(*   Spec         service.execute of the context-retention server          *)
(*                (keepContext / keepPage), with overlapping calls;        *)
(*   SpecSeq      the same execute, one call at a time, with every kind    *)
(*                of return value and the automatic page capture;          *)
(*   SpecRequire  the same execute with the fragment's safeRequire calls;  *)
(*   SpecReuse    the same execute, three calls of one workflow one after  *)
(*                the other;                                               *)
(*   SpecId       service.execute of the explicit-instance-id server       *)
(*                (keepInstance / browserInstanceId);                      *)
(*   SpecStop     connections, execute calls and the termination signals;  *)
(*   SpecLookup   getContextByName on the named contexts of a controller;  *)
(*   SpecNamed    execute with fragments that write and read the named     *)
(*                contexts through the injected helpers;                   *)
(*   SpecClient   executeRemote of the client.                             *)
(* Text is a sequence of one-character strings; NL is the newline.         *)
(***************************************************************************)
EXTENDS Naturals, Integers, Sequences, FiniteSets, TLC

VARIABLES
    password,      \* PASSWORD, read from the environment at startup
    autoDestroy,   \* runtime: a write after end() destroys the socket (TRUE) or only emits 'error'
    conns,         \* per connection: the closure state of the connection handler and the socket
    proc,          \* the server process: "up", "crashed", "exited"
    browsers,      \* every controller ever launched, with the browserRecord made for it
    browserInstances, \* the registry Map: instanceId -> controller, iterated in insertion order
    calls,         \* the execute calls: position in the handler and its locals
    nextUuid,      \* randomUUID(): the next fresh identifier
    started,       \* number of execute calls received so far
    last,          \* the call that ended most recently, as it ended (observation only)
    instances2,    \* explicit-id server: its browserInstances Map
    browsers2,     \* explicit-id server: every controller launched, with its record
    calls2,        \* explicit-id server: its execute calls
    last2,         \* explicit-id server: the call that ended most recently (observation only)
    signal,        \* the termination signal received ("none" until then) and server.close() progress
    required,      \* the answers safeRequire gave, in call order
    pipeFirst,     \* which connection handler runs: the one that pipes before it removes the 'data' listeners
    lookup,        \* one getContext call: the named contexts it runs on, the name and its outcome
    globalBrowser, \* global.browser of the server process: the controller assigned last (0: none)
    client         \* one executeRemote call of the client: its promise, its stream and its closure

\* executeRemote not called yet
NoClient == [promise |-> "none", stream |-> "none", authenticated |-> FALSE,
             authBuffer |-> <<>>, piped |-> FALSE, executeCalls |-> 0,
             timer |-> FALSE, script |-> <<>>, received |-> 0]

\* no getContext call under way
NoLookup == [contexts |-> <<>>, name |-> <<>>, result |-> "none", listed |-> <<>>]

vars == <<password, autoDestroy, conns, proc, browsers,
          browserInstances, calls, nextUuid, started, last, instances2, browsers2, calls2, last2,
          signal, required, pipeFirst, lookup, globalBrowser, client>>

authVars == <<password, autoDestroy, conns>>
execVars == <<proc, browsers, browserInstances, calls, nextUuid, started, last>>
idVars   == <<instances2, browsers2, calls2, last2>>
auxVars  == <<signal, required, pipeFirst, lookup, globalBrowser, client>>

(***************************************************************************)
(* Bounds                                                                  *)
(***************************************************************************)
MaxRecv == 5        \* characters and RPC frames a peer sends on one connection
MaxChunk == 2       \* longest chunk one 'data' event delivers
TickLen == 10       \* time units that pass in one step of the clock
MaxAge == 40        \* the clock of a connection is followed up to this age

\* the client's handshake timer: setTimeout(..., 30000), in seconds
Timeout == 30

(***************************************************************************)
(* Text helpers                                                            *)
(***************************************************************************)
NL == "\n"
SP == " "

\* String.prototype.includes('\n')
HasNL(s) == \E i \in 1..Len(s) : s[i] = NL

\* String.prototype.indexOf('\n'), 1-based; only used when HasNL(s)
IndexOfNL(s) == CHOOSE i \in 1..Len(s) : s[i] = NL /\ \A j \in 1..(i-1) : s[j] # NL

\* buffer.split('\n')[0]
FirstLine(s) == IF HasNL(s) THEN SubSeq(s, 1, IndexOfNL(s) - 1) ELSE s

\* buffer.substring(buffer.indexOf('\n') + 1)
AfterFirstNL(s) == SubSeq(s, IndexOfNL(s) + 1, Len(s))

IsSpace(ch) == ch = SP \/ ch = NL

RECURSIVE TrimStart(_)
TrimStart(s) == IF s # <<>> /\ IsSpace(Head(s)) THEN TrimStart(Tail(s)) ELSE s

RECURSIVE TrimEnd(_)
TrimEnd(s) ==
    IF s # <<>> /\ IsSpace(s[Len(s)]) THEN TrimEnd(SubSeq(s, 1, Len(s) - 1)) ELSE s

\* String.prototype.trim()
Trim(s) == TrimEnd(TrimStart(s))

(***************************************************************************)
(* Authentication gate and RPC channel                                     *)
(***************************************************************************)
Conns == {"k1"}

\* what a peer can put on the wire: characters, the newline, and complete
\* dnode request frames for health (H) and execute (E)
Chars == {"s", SP}
Frames == {"H", "E"}

\* the two bytes of one UTF-8 character (e-acute), and U+FFFD as it is
\* encoded again
Lead == "C3"
Cont == "A9"
Replacement == "FFFD"
Tokens == Chars \cup {NL} \cup Frames

\* input in which a character of two bytes occurs
ByteTokens == {"s", NL, "E", Lead, Cont}
ByteChunks == UNION {[1..n -> ByteTokens] : n \in 1..MaxChunk}

\* data.toString(): UTF-8 decoding of one chunk on its own. A lead byte with
\* its continuation byte is a character; a lead byte at the end of the chunk
\* or before another byte, and a continuation byte without its lead byte,
\* decode to U+FFFD. Buffer.from(string) encodes the result again
RECURSIVE Decode(_)
Decode(chunk) ==
    IF chunk = <<>> THEN <<>>
    ELSE IF Head(chunk) = Lead
         THEN IF Len(chunk) >= 2 /\ chunk[2] = Cont
              THEN <<Lead, Cont>> \o Decode(Tail(Tail(chunk)))
              ELSE <<Replacement>> \o Decode(Tail(chunk))
    ELSE IF Head(chunk) = Cont THEN <<Replacement>> \o Decode(Tail(chunk))
    ELSE <<Head(chunk)>> \o Decode(Tail(chunk))

Chunks == UNION {[1..n -> Tokens] : n \in 1..MaxChunk}

\* process.env.PASSWORD || 'default-password-change-me': any non-empty string
Secrets == {<<"s">>, <<"s", "s">>, <<SP, "s">>}

\* service.health: callback(null, { status: 'ok', timestamp })
health == [error |-> "null", result |-> "ok"]

\* what the server writes to the peer: a handshake line, or an RPC answer
Line(text) == [error |-> "line", result |-> text]

NoConn == [st |-> "none", authenticated |-> FALSE, buffer |-> <<>>,
           dnodeServer |-> FALSE, authListener |-> FALSE, piped |-> FALSE,
           writable |-> FALSE, out |-> <<>>, recv |-> <<>>, rpc |-> <<>>,
           served |-> <<>>, pending |-> 0, rejected |-> FALSE,
           age |-> 0, timer |-> FALSE]

\* socket.write(msg): appended to what the peer receives while the writable
\* side is open; after end() the write fails and, on a runtime with
\* autoDestroy, destroys the socket
Write(k, msg) ==
    IF k.st # "open" THEN k
    ELSE IF k.writable THEN [k EXCEPT !.out = Append(@, msg)]
    ELSE IF autoDestroy THEN [k EXCEPT !.st = "closed"]
    ELSE k

\* one request frame reaching dnode(service): the method is invoked; health
\* answers at once, execute answers when its callback fires
Dispatch(k, tok) ==
    IF k.st # "open" THEN k
    ELSE IF tok = "H"
        THEN Write([k EXCEPT !.rpc = Append(@, tok), !.served = Append(@, "health")],
                   health)
    ELSE IF tok = "E"
        THEN [k EXCEPT !.rpc = Append(@, tok), !.served = Append(@, "execute"),
                       !.pending = @ + 1]
    ELSE [k EXCEPT !.rpc = Append(@, tok)]

\* socket.pipe(dnodeServer): the bytes go to the RPC layer in order
RECURSIVE Feed(_, _)
Feed(k, toks) == IF toks = <<>> THEN k ELSE Feed(Dispatch(k, Head(toks)), Tail(toks))

\* the success branch of the 'data' handler. The handler of the
\* context-retention server removes its 'data' listener, pipes the socket
\* into dnode and unshifts what followed the newline. The earlier handler
\* pipes first and then calls socket.removeAllListeners('data'), which also
\* removes the listener socket.pipe() had just attached, and it drops what
\* followed the newline
Accept(k, buf) ==
    LET k1 == Write([k EXCEPT !.authenticated = TRUE], Line("OK"))
        k2 == [k1 EXCEPT !.dnodeServer = TRUE, !.authListener = FALSE, !.piped = TRUE,
                         !.buffer = <<>>]
    IN  IF pipeFirst THEN [k2 EXCEPT !.piped = FALSE]
        ELSE Feed(k2, AfterFirstNL(buf))

\* the failure branch of the 'data' handler: AUTH_FAILED, socket.end()
Reject(k) ==
    LET k1 == Write(k, Line("AUTH_FAILED"))
    IN  [k1 EXCEPT !.writable = FALSE, !.buffer = <<>>,
                   !.rejected = (k.writable \/ k.rejected)]

\* socket.on('data') of the connection handler
OnAuthData(k, chunk) ==
    IF k.authenticated THEN k
    ELSE LET buf == k.buffer \o Decode(chunk) IN
         IF HasNL(buf)
         THEN IF Trim(FirstLine(buf)) = password THEN Accept(k, buf) ELSE Reject(k)
         ELSE [k EXCEPT !.buffer = buf]

\* net.createServer((socket) => ...): a connection is accepted
Connect(c) ==
    /\ conns[c].st = "none"
    /\ \E armed \in BOOLEAN :
          conns' = [conns EXCEPT ![c] = [NoConn EXCEPT !.st = "open", !.authListener = TRUE,
                                                      !.writable = TRUE, !.timer = armed]]
    /\ UNCHANGED <<password, autoDestroy, execVars, idVars, auxVars>>

\* a 'data' event while the handler's own listener is attached
AuthData(c, chunk) ==
    /\ conns[c].st = "open"
    /\ conns[c].authListener
    /\ Len(conns[c].recv) + Len(chunk) <= MaxRecv
    /\ conns' = [conns EXCEPT ![c] =
                    OnAuthData([conns[c] EXCEPT !.recv = @ \o chunk], chunk)]
    /\ UNCHANGED <<password, autoDestroy, execVars, idVars, auxVars>>

\* a 'data' event after the listener was replaced by the pipe into dnode
PipedData(c, chunk) ==
    /\ conns[c].st = "open"
    /\ ~conns[c].authListener
    /\ conns[c].piped
    /\ Len(conns[c].recv) + Len(chunk) <= MaxRecv
    /\ conns' = [conns EXCEPT ![c] = Feed([conns[c] EXCEPT !.recv = @ \o chunk], chunk)]
    /\ UNCHANGED <<password, autoDestroy, execVars, idVars, auxVars>>

\* a 'data' event on a socket that has no 'data' listener left: the bytes
\* are read and discarded
DroppedData(c, chunk) ==
    /\ conns[c].st = "open"
    /\ ~conns[c].authListener
    /\ ~conns[c].piped
    /\ Len(conns[c].recv) + Len(chunk) <= MaxRecv
    /\ conns' = [conns EXCEPT ![c].recv = @ \o chunk]
    /\ UNCHANGED <<password, autoDestroy, execVars, idVars, auxVars>>

\* the callback of an execute call fires: dnode writes the response
ExecuteAnswered(c) ==
    /\ conns[c].pending > 0
    /\ conns' = [conns EXCEPT ![c] =
                    Write([conns[c] EXCEPT !.pending = @ - 1], [error |-> "null", result |-> "payload"])]
    /\ UNCHANGED <<password, autoDestroy, execVars, idVars, auxVars>>

\* socket.on('end'): the peer closed its side; dnodeServer.end() and, the
\* server not allowing half-open sockets, the socket is closed
PeerEnd(c) ==
    /\ conns[c].st = "open"
    /\ conns' = [conns EXCEPT ![c] = [@ EXCEPT !.st = "closed", !.writable = FALSE]]
    /\ UNCHANGED <<password, autoDestroy, execVars, idVars, auxVars>>

\* the peer's handshake timer fires: executeRemote ends its stream (and
\* rejects) when it has not seen 'OK' by then; the server sees 'end'
TimerDue(k) == k.timer /\ ~k.authenticated /\ k.age + TickLen > Timeout

ClientTimer(c) ==
    /\ conns[c].st = "open"
    /\ TimerDue(conns[c])
    /\ conns' = [conns EXCEPT ![c] = [@ EXCEPT !.st = "closed", !.writable = FALSE]]
    /\ UNCHANGED <<password, autoDestroy, execVars, idVars, auxVars>>

\* time passes on a connection that is not authenticated; the connection
\* handler itself arms no timer and sets no socket timeout
Tick(c) ==
    /\ conns[c].st = "open"
    /\ ~conns[c].authenticated
    /\ ~TimerDue(conns[c])
    /\ conns[c].age + TickLen <= MaxAge
    /\ conns' = [conns EXCEPT ![c].age = @ + TickLen]
    /\ UNCHANGED <<password, autoDestroy, execVars, idVars, auxVars>>

InitAuthVars ==
    /\ password \in Secrets
    /\ autoDestroy \in BOOLEAN
    /\ conns = [c \in Conns |-> NoConn]

(***************************************************************************)
(* Context-retention server: registry, controllers, service.execute        *)
(***************************************************************************)
MaxCalls == 2       \* execute calls over the life of the process
MaxInFlight == 2    \* execute calls that overlap
MaxReuse == 3       \* execute calls of one workflow, one after the other
MaxNamed == 2       \* named contexts in the contexts Map of one session
MaxStamp == 2       \* creation timestamps of named contexts
MaxCtx == 2         \* contexts a fragment opens on one controller
MaxPages == 1       \* pages a fragment opens in one context
MaxOps == 1         \* controller operations one fragment performs

WorkflowIds == {"w1", "w2"}
ExecutionIds == {"e1", "e2"}
Results == {"mapping"}

\* what a fragment can return: an object with channel A holding one item, an
\* object without channels, a non-object (null, undefined, number, string),
\* an array
ResultKinds == {"mapping", "empty", "primitive", "array"}
CallIds == 1..MaxInFlight

\* metadata as the caller sends it
Metadata == [workflowId : WorkflowIds, executionId : ExecutionIds,
             keepContext : BOOLEAN, keepPage : BOOLEAN, autoScreenshot : {FALSE}]

\* metadata with autoScreenshot set or not
MetadataCapture == [workflowId : WorkflowIds, executionId : ExecutionIds,
                    keepContext : BOOLEAN, keepPage : BOOLEAN,
                    autoScreenshot : BOOLEAN]

NoCall == [pc |-> "idle", workflowId |-> "", executionId |-> "",
           keepContext |-> FALSE, keepPage |-> FALSE,
           activeInstanceId |-> 0, browserRecord |-> 0,
           createdNewInstance |-> FALSE, shouldCloseAfterExecution |-> FALSE,
           reusedPersistentContext |-> FALSE,
           contexts |-> <<>>, result |-> "", ops |-> 0,
           error |-> "", payload |-> "", instanceIdToReturn |-> 0,
           sawExact |-> FALSE, sawPersistent |-> FALSE,
           follows |-> FALSE, prevLive |-> FALSE, onlyPrev |-> FALSE,
           samePrev |-> FALSE, thrown |-> "", closeFailed |-> FALSE, stay |-> {},
           bLive |-> FALSE, bEntry |-> FALSE, bCtxs |-> <<>>,
           aLive |-> FALSE, aEntry |-> FALSE, aMatch |-> FALSE, aCtxs |-> <<>>,
           autoScreenshot |-> FALSE, wantsContext |-> FALSE, items |-> <<>>,
           shots |-> 0, hookError |-> FALSE, shotFailed |-> FALSE, hookRan |-> FALSE, steps |-> <<>>, aPrimary |-> 0, aPersistent |-> FALSE,
           conn |-> "", persistentContexts |-> <<>>, answers |-> 0]

\* positions of a call between which other handlers can run
Live(c) == calls[c].pc # "idle"

\* browser.contexts(): the open contexts, as their identities
ContextsOf(b) == [i \in 1..Len(browsers[b].ctxs) |-> browsers[b].ctxs[i].id]

SeqHas(s, x) == \E i \in 1..Len(s) : s[i] = x

RECURSIVE SeqFilter(_, _)
SeqFilter(s, keep) ==
    IF s = <<>> THEN <<>>
    ELSE IF Head(s) \in keep THEN <<Head(s)>> \o SeqFilter(Tail(s), keep)
    ELSE SeqFilter(Tail(s), keep)

\* browserInstances.delete(instanceId)
RECURSIVE MapDelete(_, _)
MapDelete(m, id) ==
    IF m = <<>> THEN <<>>
    ELSE IF Head(m).id = id THEN MapDelete(Tail(m), id)
    ELSE <<Head(m)>> \o MapDelete(Tail(m), id)

\* Step 1 without the isConnected test
ExactMatchUnchecked(e, wf, ex) ==
    /\ browsers[e.b].workflowId = wf
    /\ browsers[e.b].executionId = ex

\* Step 1 condition: same workflowId and executionId, controller connected
ExactMatch(e, wf, ex) ==
    /\ browsers[e.b].workflowId = wf
    /\ browsers[e.b].executionId = ex
    /\ browsers[e.b].connected

\* Step 2 condition: same workflowId, flagged persistent, controller connected
PersistentMatch(e, wf) ==
    /\ browsers[e.b].workflowId = wf
    /\ browsers[e.b].persistentContext
    /\ browsers[e.b].connected

\* for (const [instanceId, record] of browserInstances.entries()) ... break:
\* the position of the first entry that matches, 0 when none does
FirstExact(wf, ex) ==
    IF \E i \in 1..Len(browserInstances) : ExactMatch(browserInstances[i], wf, ex)
    THEN CHOOSE i \in 1..Len(browserInstances) :
            /\ ExactMatch(browserInstances[i], wf, ex)
            /\ \A j \in 1..(i-1) : ~ExactMatch(browserInstances[j], wf, ex)
    ELSE 0

FirstPersistent(wf) ==
    IF \E i \in 1..Len(browserInstances) : PersistentMatch(browserInstances[i], wf)
    THEN CHOOSE i \in 1..Len(browserInstances) :
            /\ PersistentMatch(browserInstances[i], wf)
            /\ \A j \in 1..(i-1) : ~PersistentMatch(browserInstances[j], wf)
    ELSE 0

\* keepPage / keepContext as execute derives them from the metadata
EffKeepPage(m) == m.keepPage = TRUE

\* keepContext taken as the caller sent it
KeepContextAsSent(m) == m.keepContext = TRUE

EffKeepContext(m) == m.keepContext = TRUE \/ EffKeepPage(m)

\* Step 2 tried whenever there is no exact match
TriesPersistentAlways(exact, keepContext) == exact = 0

\* Step 2 is tried only when no exact match was found and keepContext is set
TriesPersistent(exact, keepContext) == exact = 0 /\ keepContext

\* the exact match dropped, only the persistent fallback kept
FoundPersistentOnly(exact, pers) == pers

\* the persistent fallback dropped, only the exact match kept
FoundExactOnly(exact, pers) == exact

\* the entry Steps 1 and 2 leave in browserRecord: the exact match, else the
\* persistent fallback, else none (Step 3 then launches)
Found(exact, pers) == IF exact # 0 THEN exact ELSE pers

\* revalidation of primaryContext before the fragment runs: a primary
\* context that is no longer among browser.contexts() is cleared
Revalidate(br) ==
    IF br.persistentContext /\ br.primaryContext # 0
       /\ ~(\E i \in 1..Len(br.ctxs) : br.ctxs[i].id = br.primaryContext)
    THEN [br EXCEPT !.primaryContext = 0]
    ELSE br

\* identifiers are only compared for equality: a call uses the first
\* identifier or one that directly follows an identifier already in use
Canonical(m) == started = 0 => (m.workflowId = "w1" /\ m.executionId = "e1")

\* a record nothing refers to any more
Gone == [connected |-> FALSE, ctxs |-> <<>>, closeReq |-> 0,
         workflowId |-> "", executionId |-> "", lastExecutionId |-> "",
         keepContext |-> FALSE, keepPage |-> FALSE,
         persistentContext |-> FALSE, primaryContext |-> 0,
         contexts |-> <<>>, contextMetadata |-> <<>>]

Referenced(b, cls, reg, lst) ==
    \/ \E d \in CallIds : cls[d].browserRecord = b
    \/ \E i \in 1..Len(reg) : reg[i].b = b
    \/ lst.browserRecord = b

\* records that no call, no registry entry and no observation refers to are
\* unreachable for the program
RECURSIVE DropGone(_)
DropGone(brs) ==
    IF brs # <<>> /\ brs[Len(brs)] = Gone THEN DropGone(SubSeq(brs, 1, Len(brs) - 1))
    ELSE brs

Collect(brs, cls, reg, lst) ==
    DropGone([b \in 1..Len(brs) |-> IF Referenced(b, cls, reg, lst) THEN brs[b] ELSE Gone])

\* the place of a new record
NewIndex(brs) ==
    CHOOSE i \in 1..(Len(brs) + 1) :
        /\ i = Len(brs) + 1 \/ brs[i] = Gone
        /\ \A j \in 1..(i - 1) : brs[j] # Gone

\* service.execute up to the first await: metadata, Step 1, Step 2; with a
\* session found the handler goes on to start the fragment, without one it
\* awaits chromium.launch
ExecuteFrom(conn, c, m, maxCalls) ==
    /\ proc = "up"
    /\ ~Live(c)
    /\ \A d \in CallIds : d < c => Live(d)
    /\ started < maxCalls
    /\ Canonical(m)
    /\ LET keepPage == EffKeepPage(m)
           keepContext == EffKeepContext(m)
           exact == FirstExact(m.workflowId, m.executionId)
           pers == IF TriesPersistent(exact, keepContext)
                   THEN FirstPersistent(m.workflowId) ELSE 0
           found == Found(exact, pers)
           base == [NoCall EXCEPT
                      !.workflowId = m.workflowId, !.executionId = m.executionId,
                      !.keepContext = keepContext, !.keepPage = keepPage,
                      !.steps = <<"resolve">>, !.conn = conn,
                      !.autoScreenshot = (m.autoScreenshot = TRUE),
                      !.wantsContext = (m.keepContext = TRUE),
                      !.sawExact = (\E i \in 1..Len(browserInstances) :
                                      ExactMatch(browserInstances[i], m.workflowId,
                                                 m.executionId)),
                      !.sawPersistent = (\E i \in 1..Len(browserInstances) :
                                      PersistentMatch(browserInstances[i], m.workflowId)),
                      !.follows = (/\ \A d \in CallIds : ~Live(d)
                                   /\ last.pc = "done"
                                   /\ last.workflowId = m.workflowId
                                   /\ last.executionId = m.executionId),
                      !.onlyPrev = (\A i \in 1..Len(browserInstances) :
                                      PersistentMatch(browserInstances[i], m.workflowId)
                                      => browserInstances[i].b = last.browserRecord),
                      !.prevLive = (/\ last.browserRecord # 0
                                    /\ browsers[last.browserRecord].connected
                                    /\ \E i \in 1..Len(browserInstances) :
                                          browserInstances[i].b = last.browserRecord),
                      !.samePrev = (found # 0 /\ last.browserRecord # 0
                                    /\ browserInstances[found].b = last.browserRecord)]
       IN  IF found # 0
           THEN LET e == browserInstances[found] IN
                /\ calls' = [calls EXCEPT ![c] = [base EXCEPT
                        !.pc = "run", !.activeInstanceId = e.id, !.browserRecord = e.b,
                        !.persistentContexts = browsers[e.b].contexts,
                        !.reusedPersistentContext = (exact = 0)]]
                /\ browsers' = Collect([browsers EXCEPT ![e.b] =
                        Revalidate(IF exact = 0
                                   THEN [@ EXCEPT !.lastExecutionId = m.executionId,
                                                  !.persistentContext = TRUE]
                                   ELSE @)], calls', browserInstances, last)
                /\ globalBrowser' = e.b
           ELSE /\ calls' = [calls EXCEPT ![c] = [base EXCEPT !.pc = "launch"]]
                /\ browsers' = Collect(browsers, calls', browserInstances, last)
                /\ UNCHANGED globalBrowser
    /\ started' = started + 1
    /\ UNCHANGED <<proc, browserInstances, nextUuid, last, authVars, idVars,
                   signal, required, pipeFirst, lookup, client>>

\* an execute call whose connection the model does not follow
ExecuteWithin(c, m, maxCalls) == ExecuteFrom("", c, m, maxCalls)

\* an execute call arriving, while the process has served fewer than MaxCalls
Execute(c, m) == ExecuteWithin(c, m, MaxCalls)

\* Step 3 registering every new record
RegistersAlways(keepContext) == TRUE

\* Step 3 registers the new record only when keepContext is set
RegistersNew(keepContext) == keepContext

\* chromium.launch resolved: Step 3 builds the record, registers it under a
\* fresh id when keepContext is set, and the handler starts the fragment
Launched(c) ==
    /\ proc = "up"
    /\ calls[c].pc = "launch"
    /\ LET k == calls[c]
           b == NewIndex(browsers)
           rec == [connected |-> TRUE, ctxs |-> <<>>, closeReq |-> 0,
                   workflowId |-> k.workflowId, executionId |-> k.executionId,
                   lastExecutionId |-> k.executionId,
                   keepContext |-> k.keepContext, keepPage |-> k.keepPage,
                   persistentContext |-> k.keepContext, primaryContext |-> 0,
                   contexts |-> <<>>, contextMetadata |-> <<>>]
       IN  /\ browsers' = IF b = Len(browsers) + 1 THEN Append(browsers, rec)
                          ELSE [browsers EXCEPT ![b] = rec]
           /\ IF RegistersNew(k.keepContext)
              THEN /\ browserInstances' = Append(browserInstances, [id |-> nextUuid, b |-> b])
                   /\ nextUuid' = nextUuid + 1
                   /\ calls' = [calls EXCEPT ![c] = [k EXCEPT
                          !.pc = "run", !.browserRecord = b, !.createdNewInstance = TRUE,
                          !.activeInstanceId = nextUuid]]
              ELSE /\ UNCHANGED <<browserInstances, nextUuid>>
                   /\ calls' = [calls EXCEPT ![c] = [k EXCEPT
                          !.pc = "run", !.browserRecord = b, !.createdNewInstance = TRUE,
                          !.shouldCloseAfterExecution = TRUE]]
           /\ globalBrowser' = b
    /\ UNCHANGED <<proc, started, last, authVars, idVars, signal, required, pipeFirst, lookup, client>>

\* what can be seen of a call's session when its fragment has ended: whether
\* the controller is connected, whether the registry holds it, and its open
\* contexts; stay is the set of contexts whose close is going to fail
Before(k, stay) ==
    LET b == k.browserRecord IN
    [k EXCEPT
       !.stay = stay,
       !.bLive = (b # 0 /\ browsers[b].connected),
       !.bEntry = (b # 0 /\ \E i \in 1..Len(browserInstances) :
                               browserInstances[i].b = b),
       !.bCtxs = IF b # 0 THEN browsers[b].ctxs ELSE <<>>]

\* what can be seen of a call's session when the call ends: whether its
\* controller is connected, whether the registry holds it, whether a
\* resolution for the call's (workflowId, executionId) finds an entry, and
\* the open contexts of the controller
Ended(k, brs, reg) ==
    LET b == k.browserRecord IN
    [k EXCEPT
       !.aLive = (b # 0 /\ brs[b].connected),
       !.aEntry = (b # 0 /\ \E i \in 1..Len(reg) : reg[i].b = b),
       !.aMatch = (\E i \in 1..Len(reg) :
                     /\ brs[reg[i].b].workflowId = k.workflowId
                     /\ brs[reg[i].b].executionId = k.executionId
                     /\ brs[reg[i].b].connected),
       !.aCtxs = IF b # 0 THEN brs[b].ctxs ELSE <<>>,
       !.aPrimary = IF b # 0 THEN brs[b].primaryContext ELSE 0,
       !.aPersistent = (b # 0 /\ brs[b].persistentContext)]

\* the catch block of execute reads executionContext, browserRecord,
\* activeInstanceId and createdNewInstance, which are declared with const/let
\* inside the try block and are out of scope in the catch block: its first
\* test raises ReferenceError, the callback is never called, and the promise
\* of the async method is rejected with nobody handling it. The runtime
\* either ends the process on the unhandled rejection (dies) or only warns
Catch(c, dies, what) ==
    /\ calls' = [calls EXCEPT ![c] = NoCall]
    /\ last' = Ended(Before([calls[c] EXCEPT !.pc = "rejected", !.ops = 0,
                                                !.thrown = what,
                                                !.steps = IF what = "boom"
                                                          THEN Append(@, "run") ELSE @],
                            {}),
                     browsers, browserInstances)
    /\ proc' = IF dies THEN "crashed" ELSE proc
    /\ browsers' = Collect(browsers, calls', browserInstances, last')

\* chromium.launch rejected: the error is thrown inside the try block
LaunchFailed(c, dies) ==
    /\ proc = "up"
    /\ calls[c].pc = "launch"
    /\ Catch(c, dies, "launch failed")
    /\ UNCHANGED <<browserInstances, nextUuid, started, authVars, idVars, auxVars>>

\* a context object that is not one of the open contexts and is not the one
\* primaryContext still refers to
FreshCtx(br) ==
    CHOOSE n \in 1..(MaxCtx + 2) :
        /\ n # br.primaryContext
        /\ \A i \in 1..Len(br.ctxs) : br.ctxs[i].id # n
        /\ \A m \in 1..(n - 1) :
              m = br.primaryContext \/ \E i \in 1..Len(br.ctxs) : br.ctxs[i].id = m

\* the fragment calls browser.newContext()
FragNewContext(c) ==
    /\ proc = "up"
    /\ calls[c].pc = "run"
    /\ calls[c].ops < MaxOps
    /\ LET b == calls[c].browserRecord IN
       /\ browsers[b].connected
       /\ Len(browsers[b].ctxs) < MaxCtx
       /\ browsers' = [browsers EXCEPT ![b] = [@ EXCEPT
                          !.ctxs = Append(@, [id |-> FreshCtx(browsers[b]), pages |-> 0])]]
    /\ calls' = [calls EXCEPT ![c] = [@ EXCEPT !.ops = @ + 1]]
    /\ UNCHANGED <<proc, browserInstances, nextUuid, started, last, authVars, idVars, auxVars>>

\* the fragment calls browser.newPage(): a new context with one page
FragNewBrowserPage(c) ==
    /\ proc = "up"
    /\ calls[c].pc = "run"
    /\ calls[c].ops < MaxOps
    /\ LET b == calls[c].browserRecord IN
       /\ browsers[b].connected
       /\ Len(browsers[b].ctxs) < MaxCtx
       /\ browsers' = [browsers EXCEPT ![b] = [@ EXCEPT
                          !.ctxs = Append(@, [id |-> FreshCtx(browsers[b]), pages |-> 1])]]
    /\ calls' = [calls EXCEPT ![c] = [@ EXCEPT !.ops = @ + 1]]
    /\ UNCHANGED <<proc, browserInstances, nextUuid, started, last, authVars, idVars, auxVars>>

\* the fragment calls context.newPage() on an open context
FragNewPage(c, i) ==
    /\ proc = "up"
    /\ calls[c].pc = "run"
    /\ calls[c].ops < MaxOps
    /\ LET b == calls[c].browserRecord IN
       /\ browsers[b].connected
       /\ i \in 1..Len(browsers[b].ctxs)
       /\ browsers[b].ctxs[i].pages < MaxPages
       /\ browsers' = [browsers EXCEPT ![b] = [@ EXCEPT !.ctxs[i].pages = @ + 1]]
    /\ calls' = [calls EXCEPT ![c] = [@ EXCEPT !.ops = @ + 1]]
    /\ UNCHANGED <<proc, browserInstances, nextUuid, started, last, authVars, idVars, auxVars>>

\* the fragment calls context.close() on an open context
FragCloseContext(c, i) ==
    /\ proc = "up"
    /\ calls[c].pc = "run"
    /\ calls[c].ops < MaxOps
    /\ LET b == calls[c].browserRecord IN
       /\ browsers[b].connected
       /\ i \in 1..Len(browsers[b].ctxs)
       /\ browsers' = [browsers EXCEPT ![b] = [@ EXCEPT
                          !.ctxs = SubSeq(@, 1, i - 1) \o SubSeq(@, i + 1, Len(@))]]
    /\ calls' = [calls EXCEPT ![c] = [@ EXCEPT !.ops = @ + 1]]
    /\ UNCHANGED <<proc, browserInstances, nextUuid, started, last, authVars, idVars, auxVars>>

\* the fragment calls browser.close() itself
FragCloseBrowser(c) ==
    /\ proc = "up"
    /\ calls[c].pc = "run"
    /\ calls[c].ops < MaxOps
    /\ LET b == calls[c].browserRecord IN
       /\ browsers[b].connected
       /\ browsers' = [browsers EXCEPT ![b] = [@ EXCEPT !.connected = FALSE, !.ctxs = <<>>]]
    /\ calls' = [calls EXCEPT ![c] = [@ EXCEPT !.ops = @ + 1]]
    /\ UNCHANGED <<proc, browserInstances, nextUuid, started, last, authVars, idVars, auxVars>>

\* the items of channel A of a returned value, each item as the set of the
\* keys of its binary attachments
ItemsOf(r) == IF r = "mapping" THEN << {} >> ELSE <<>>

\* the screenshots taken: one for every open page whose screenshot() does
\* not fail (fail: the contexts whose pages fail)
RECURSIVE Shots(_, _)
Shots(ctxs, fail) ==
    IF ctxs = <<>> THEN 0
    ELSE (IF Head(ctxs).id \in fail THEN 0 ELSE Head(ctxs).pages) + Shots(Tail(ctxs), fail)

\* the binary keys of n screenshots: "screenshot" for one, "screenshot_i" for more
ScreenshotKeys(n) ==
    IF n = 1 THEN {"screenshot"} ELSE {"screenshot_" \o ToString(i) : i \in 0..(n - 1)}

\* merging n > 0 screenshots raises an error for a result that is not an
\* object: result is a const and "result = {}" is an assignment to it
MergeRaises(r, n) == n > 0 /\ r = "primitive"

\* the items after n screenshots were merged into the first item of channel
\* A (an item is pushed when there is none)
Merge(items, n) ==
    IF n = 0 THEN items
    ELSE IF items = <<>> THEN << ScreenshotKeys(n) >>
    ELSE [items EXCEPT ![1] = @ \cup ScreenshotKeys(n)]

\* an auto-screenshot block without its try/catch
HookLetsThrough(raised) == ~raised

\* an error raised inside the auto-screenshot block is caught there
HookCatches(raised) == TRUE

\* await func(...) resolved with the fragment's return value; with
\* autoScreenshot and a connected controller the open pages are captured
\* and merged into the result (enum: browser.contexts() or pages() raises)
\* the fragment returned without the auto-screenshot block running
StepsWithoutCapture(hook) == <<"run">>

\* what the handler does between the fragment's return and lifecycle
\* management: the auto-screenshot block, entered when it was requested and
\* the controller is connected
StepsAfterFragment(hook) == IF hook THEN <<"run", "capture">> ELSE <<"run">>

FragReturn(c, r, fail, enum) ==
    /\ proc = "up"
    /\ calls[c].pc = "run"
    /\ LET k == calls[c]
           br == browsers[k.browserRecord]
           hook == k.autoScreenshot /\ br.connected
           n == IF hook /\ ~enum THEN Shots(br.ctxs, fail) ELSE 0
           raised == hook /\ (enum \/ MergeRaises(r, n))
           k1 == [k EXCEPT !.result = r, !.ops = 0, !.shots = n,
                           !.hookError = raised, !.hookRan = hook,
                           !.steps = @ \o StepsAfterFragment(hook),
                           !.shotFailed = (hook /\ ~enum /\ n < Shots(br.ctxs, {})),
                           !.items = IF raised THEN ItemsOf(r) ELSE Merge(ItemsOf(r), n)]
       IN  /\ ~hook => (fail = {} /\ ~enum)
           /\ fail \subseteq {br.ctxs[i].id : i \in 1..Len(br.ctxs)}
           /\ IF raised /\ ~HookCatches(raised)
              THEN Catch(c, FALSE, "hook")
              ELSE /\ calls' = [calls EXCEPT ![c] = [k1 EXCEPT !.pc = "policy"]]
                   /\ UNCHANGED <<proc, browsers, last>>
    /\ UNCHANGED <<browserInstances, nextUuid, started, authVars, idVars, auxVars>>

\* await func(...) rejected: the fragment threw
FragThrow(c, dies) ==
    /\ proc = "up"
    /\ calls[c].pc = "run"
    /\ Catch(c, dies, "boom")
    /\ UNCHANGED <<browserInstances, nextUuid, started, authVars, idVars, auxVars>>

\* response payload and callback(null, responsePayload)
Respond(k) ==
    [k EXCEPT !.pc = "done", !.error = "null", !.contexts = <<>>,
              !.answers = @ + 1, !.steps = Append(@, "callback"),
              !.payload = IF k.result = "primitive" THEN "wrapped" ELSE k.result,
              !.instanceIdToReturn = IF k.keepContext THEN k.activeInstanceId ELSE 0]

\* update of primaryContext after the policy, from the list of contexts
\* read before the policy was applied
\* the named contexts that browser.contexts() still includes
StillValid(named) == SeqFilter(named, {x \in {named[i] : i \in 1..Len(named)} : x.live})

PrimaryUpdate(br, contexts) ==
    IF br.persistentContext /\ Len(contexts) > 0
    THEN [br EXCEPT
            !.primaryContext = IF @ = 0 \/ ~SeqHas(contexts, @) THEN contexts[1] ELSE @,
            !.contexts = StillValid(@),
            !.contextMetadata = StillValid(@)]
    ELSE br

\* keepContext=false closes every context; a close that fails leaves it open
CloseContexts(br, stay) ==
    [br EXCEPT !.ctxs = SeqFilter(@, {x \in {br.ctxs[i] : i \in 1..Len(br.ctxs)} :
                                        x.id \in stay})]

\* keepContext=true, keepPage=false closes every page; a close that fails
\* leaves the pages of that context open
ClosePages(br, stay) ==
    [br EXCEPT !.ctxs = [i \in 1..Len(br.ctxs) |->
                            IF br.ctxs[i].id \in stay THEN br.ctxs[i]
                            ELSE [br.ctxs[i] EXCEPT !.pages = 0]]]

\* lifecycle branches without the keepPage=true branch
\* a policy that tears every session down
PolicyAlwaysNothing(keepContext, keepPage) == "keepNothing"

PolicyClosesPages(keepContext, keepPage) ==
    IF ~keepContext THEN "keepNothing" ELSE "keepScope"

\* the policy branch taken for keepContext / keepPage
PolicyOf(keepContext, keepPage) ==
    IF ~keepContext THEN "keepNothing" ELSE IF ~keepPage THEN "keepScope" ELSE "keepAll"

\* lifecycle management after the fragment returned: contexts or pages are
\* closed according to the policy; stay holds the contexts whose close fails
Policy(c, stay) ==
    /\ proc = "up"
    /\ calls[c].pc = "policy"
    /\ LET b == calls[c].browserRecord
           br == browsers[b]
           contexts == ContextsOf(b)
           k == [Before(calls[c], stay) EXCEPT !.steps = Append(@, "policy")]
           policy == PolicyOf(k.keepContext, k.keepPage)
           nb == IF ~br.connected THEN browsers
                 ELSE IF policy = "keepScope"
                 THEN [browsers EXCEPT ![b] = PrimaryUpdate(ClosePages(br, stay), contexts)]
                 ELSE [browsers EXCEPT ![b] = PrimaryUpdate(br, contexts)]
       IN  /\ stay \subseteq {contexts[i] : i \in 1..Len(contexts)}
           /\ IF br.connected /\ policy = "keepNothing"
              THEN /\ browsers' = [browsers EXCEPT ![b] =
                          IF contexts = <<>> THEN [br EXCEPT !.closeReq = @ + 1]
                          ELSE CloseContexts(br, stay)]
                   /\ calls' = [calls EXCEPT ![c] = [k EXCEPT
                          !.contexts = contexts,
                          !.pc = IF contexts = <<>> THEN "awaitClose" ELSE "closeBrowser"]]
                   /\ UNCHANGED last
              ELSE /\ (~br.connected \/ policy = "keepAll") => stay = {}
                   /\ calls' = [calls EXCEPT ![c] = NoCall]
                   /\ last' = Ended(Respond(k), nb, browserInstances)
                   /\ browsers' = Collect(nb, calls', browserInstances, last')
    /\ UNCHANGED <<proc, browserInstances, nextUuid, started, authVars, idVars, auxVars>>

\* keepContext=false, after the contexts: browser.close() is called
RequestClose(c) ==
    /\ proc = "up"
    /\ calls[c].pc = "closeBrowser"
    /\ browsers' = [browsers EXCEPT ![calls[c].browserRecord] = [@ EXCEPT !.closeReq = @ + 1]]
    /\ calls' = [calls EXCEPT ![c] = [@ EXCEPT !.pc = "awaitClose"]]
    /\ UNCHANGED <<proc, browserInstances, nextUuid, started, last, authVars, idVars, auxVars>>

\* browser.close() settled: the controller is disconnected, or the close
\* failed and it is as it was
Settle(br, ok) == IF ok THEN [br EXCEPT !.connected = FALSE, !.ctxs = <<>>] ELSE br

\* a browser.close() whose rejection is not handled
CloseRethrows(ok) == ok

\* await browser.close().catch((error) => console.error(...)): a rejected
\* close is logged and the await completes normally
CloseCaught(ok) == TRUE

\* the entry never evicted
NeverEvicts(activeInstanceId) == FALSE

\* keepContext=false evicts the entry when the call has an instance id
EvictsAfterClose(activeInstanceId) == activeInstanceId # 0

\* the awaited browser.close() settled: the entry is evicted, primaryContext
\* is updated, and the fallback closes again a controller that is still
\* connected when the call created it without keepContext
CloseSettled(c, ok) ==
    /\ proc = "up"
    /\ calls[c].pc = "awaitClose"
    /\ LET k == calls[c]
           b == k.browserRecord
           br == PrimaryUpdate(Settle(browsers[b], ok), k.contexts)
           k1 == [k EXCEPT !.activeInstanceId = 0, !.closeFailed = ~ok]
           again == k.shouldCloseAfterExecution /\ ~k.keepContext /\ br.connected
           nb == [browsers EXCEPT ![b] = br]
       IN  IF ~CloseCaught(ok)
           THEN /\ Catch(c, FALSE, "close")
                /\ UNCHANGED browserInstances
           ELSE /\ browserInstances' = IF EvictsAfterClose(k.activeInstanceId)
                                       THEN MapDelete(browserInstances, k.activeInstanceId)
                                       ELSE browserInstances
                /\ UNCHANGED proc
                /\ IF again
                   THEN /\ browsers' = [browsers EXCEPT ![b] = [br EXCEPT !.closeReq = @ + 1]]
                        /\ calls' = [calls EXCEPT ![c] = [k1 EXCEPT !.pc = "awaitFallback"]]
                        /\ UNCHANGED last
                   ELSE /\ calls' = [calls EXCEPT ![c] = NoCall]
                        /\ last' = Ended(Respond(k1), nb, browserInstances')
                        /\ browsers' = Collect(nb, calls', browserInstances', last')
    /\ UNCHANGED <<nextUuid, started, authVars, idVars, auxVars>>

\* the fallback browser.close() settled; the call answers
FallbackSettled(c, ok) ==
    /\ proc = "up"
    /\ calls[c].pc = "awaitFallback"
    /\ LET k == [calls[c] EXCEPT !.closeFailed = ~ok]
           nb == [browsers EXCEPT ![k.browserRecord] = Settle(@, ok)]
       IN  IF ~CloseCaught(ok)
           THEN Catch(c, FALSE, "close")
           ELSE /\ calls' = [calls EXCEPT ![c] = NoCall]
                /\ last' = Ended(Respond(k), nb, browserInstances)
                /\ browsers' = Collect(nb, calls', browserInstances, last')
                /\ UNCHANGED proc
    /\ UNCHANGED <<browserInstances, nextUuid, started, authVars, idVars, auxVars>>

(***************************************************************************)
(* Explicit-instance-id server: service.execute with keepInstance and      *)
(* browserInstanceId                                                       *)
(***************************************************************************)
\* metadata.browserInstanceId as sent: 0 is no id, Blank a string of spaces,
\* a positive number an id string
Blank == 0 - 1
RawInstanceIds == {Blank} \cup (0..(MaxCalls + 1))

Metadata2 == [keepInstance : BOOLEAN, browserInstanceId : RawInstanceIds]

\* typeof id === 'string' && id.trim() !== '' ? id.trim() : undefined
RequestedInstanceId(raw) == IF raw = Blank \/ raw = 0 THEN 0 ELSE raw

NoCall2 == [pc |-> "idle", keepInstance |-> FALSE, requestedInstanceId |-> 0,
            activeInstanceId |-> 0, browserRecord |-> 0,
            createdNewInstance |-> FALSE, shouldCloseAfterExecution |-> FALSE,
            ran |-> FALSE, registered |-> FALSE, badId |-> FALSE, stale |-> FALSE,
            error |-> "", payload |-> "", instanceIdToReturn |-> 0]

Live2(c) == calls2[c].pc # "idle"

\* browserInstances.get(id): the position of the entry, 0 when there is none
MapGet(m, id) ==
    IF \E i \in 1..Len(m) : m[i].id = id
    THEN CHOOSE i \in 1..Len(m) : m[i].id = id
    ELSE 0

\* only a missing entry refused
UnusableWhenMissing(at) == at = 0

\* !browserRecord || !browserRecord.browser?.isConnected()
Unusable(at) == at = 0 \/ ~browsers2[instances2[at].b].connected

\* callback(`Browser instance '...' not found or already closed`, null)
NotFound(k) == [k EXCEPT !.pc = "done", !.error = "not found or already closed",
                         !.payload = "null"]

\* service.execute up to its first await: with an id requested the entry
\* is looked up, and a missing or disconnected one answers the error and
\* returns (a stale entry is deleted); without an id a controller is launched
Execute2(c, m) ==
    /\ proc = "up"
    /\ ~Live2(c)
    /\ \A d \in CallIds : d < c => Live2(d)
    /\ started < MaxCalls
    /\ LET req == RequestedInstanceId(m.browserInstanceId)
           at == MapGet(instances2, req)
           base == [NoCall2 EXCEPT
                      !.keepInstance = m.keepInstance, !.requestedInstanceId = req,
                      !.activeInstanceId = req, !.stale = (at # 0),
                      !.badId = (/\ req # 0
                                 /\ ~\E i \in 1..Len(instances2) :
                                       /\ instances2[i].id = req
                                       /\ browsers2[instances2[i].b].connected)]
       IN  IF req # 0
           THEN IF Unusable(at)
                THEN /\ instances2' = IF at # 0 THEN MapDelete(instances2, req)
                                      ELSE instances2
                     /\ last2' = NotFound(base)
                     /\ UNCHANGED calls2
                ELSE /\ calls2' = [calls2 EXCEPT ![c] = [base EXCEPT
                            !.pc = "run", !.browserRecord = instances2[at].b,
                            !.ran = TRUE]]
                     /\ UNCHANGED <<instances2, last2>>
           ELSE /\ calls2' = [calls2 EXCEPT ![c] = [base EXCEPT !.pc = "launch"]]
                /\ UNCHANGED <<instances2, last2>>
    /\ started' = started + 1
    /\ UNCHANGED <<proc, browsers2, nextUuid, browsers, browserInstances, calls, last,
                   authVars, auxVars>>

\* chromium.launch resolved: the record is built and, with keepInstance,
\* registered under a fresh id; the fragment is started
Launched2(c) ==
    /\ proc = "up"
    /\ calls2[c].pc = "launch"
    /\ LET k == calls2[c]
           b == Len(browsers2) + 1
       IN  /\ browsers2' = Append(browsers2, [connected |-> TRUE, closeReq |-> 0])
           /\ IF k.keepInstance
              THEN /\ instances2' = Append(instances2, [id |-> nextUuid, b |-> b])
                   /\ nextUuid' = nextUuid + 1
                   /\ calls2' = [calls2 EXCEPT ![c] = [k EXCEPT
                          !.pc = "run", !.browserRecord = b, !.createdNewInstance = TRUE,
                          !.activeInstanceId = nextUuid, !.registered = TRUE,
                          !.ran = TRUE]]
              ELSE /\ UNCHANGED <<instances2, nextUuid>>
                   /\ calls2' = [calls2 EXCEPT ![c] = [k EXCEPT
                          !.pc = "run", !.browserRecord = b, !.createdNewInstance = TRUE,
                          !.shouldCloseAfterExecution = TRUE, !.ran = TRUE]]
    /\ UNCHANGED <<proc, started, last2, browsers, browserInstances, calls, last, authVars, auxVars>>

\* the catch block of this execute reads browserRecord, executionContext,
\* createdNewInstance and activeInstanceId, declared inside the try block:
\* it raises ReferenceError and the callback is never called
Catch2(c, dies) ==
    /\ calls2' = [calls2 EXCEPT ![c] = NoCall2]
    /\ last2' = [calls2[c] EXCEPT !.pc = "rejected"]
    /\ proc' = IF dies THEN "crashed" ELSE proc

\* chromium.launch rejected
LaunchFailed2(c, dies) ==
    /\ proc = "up"
    /\ calls2[c].pc = "launch"
    /\ Catch2(c, dies)
    /\ UNCHANGED <<instances2, browsers2, nextUuid, started, browsers, browserInstances,
                   calls, last, authVars, auxVars>>

\* the fragment calls browser.close() itself
FragCloseBrowser2(c) ==
    /\ proc = "up"
    /\ calls2[c].pc = "run"
    /\ browsers2[calls2[c].browserRecord].connected
    /\ browsers2' = [browsers2 EXCEPT ![calls2[c].browserRecord] =
                        [@ EXCEPT !.connected = FALSE]]
    /\ UNCHANGED <<proc, instances2, calls2, last2, nextUuid, started, browsers,
                   browserInstances, calls, last, authVars, auxVars>>

\* response payload and callback(null, responsePayload)
Respond2(k) ==
    [k EXCEPT !.pc = "done", !.error = "null", !.payload = "mapping",
              !.instanceIdToReturn = IF k.keepInstance THEN k.activeInstanceId
                                     ELSE k.requestedInstanceId]

\* the fragment returned: a controller made without keepInstance is closed
\* (awaited), every other one is left as it is, and the call answers
FragReturn2(c) ==
    /\ proc = "up"
    /\ calls2[c].pc = "run"
    /\ LET k == calls2[c] IN
       IF k.shouldCloseAfterExecution
       THEN /\ browsers2' = [browsers2 EXCEPT ![k.browserRecord] =
                                [@ EXCEPT !.closeReq = @ + 1]]
            /\ calls2' = [calls2 EXCEPT ![c] = [k EXCEPT !.pc = "awaitClose"]]
            /\ UNCHANGED last2
       ELSE /\ calls2' = [calls2 EXCEPT ![c] = NoCall2]
            /\ last2' = Respond2(k)
            /\ UNCHANGED browsers2
    /\ UNCHANGED <<proc, instances2, nextUuid, started, browsers, browserInstances,
                   calls, last, authVars, auxVars>>

\* the fragment threw
FragThrow2(c, dies) ==
    /\ proc = "up"
    /\ calls2[c].pc = "run"
    /\ Catch2(c, dies)
    /\ UNCHANGED <<instances2, browsers2, nextUuid, started, browsers, browserInstances,
                   calls, last, authVars, auxVars>>

\* the awaited browser.close() settled (a failure is logged); the call answers
CloseSettled2(c, ok) ==
    /\ proc = "up"
    /\ calls2[c].pc = "awaitClose"
    /\ browsers2' = [browsers2 EXCEPT ![calls2[c].browserRecord] =
                        IF ok THEN [@ EXCEPT !.connected = FALSE] ELSE @]
    /\ calls2' = [calls2 EXCEPT ![c] = NoCall2]
    /\ last2' = Respond2(calls2[c])
    /\ UNCHANGED <<proc, instances2, nextUuid, started, browsers, browserInstances,
                   calls, last, authVars, auxVars>>

(***************************************************************************)
(* safeRequire: the module loader handed to the fragment                   *)
(***************************************************************************)
MaxRequire == 2     \* safeRequire calls followed over the life of the process

\* const playwrightModule = { chromium }
playwrightModule == [kind |-> "module", of |-> "playwright"]

\* the list of Node.js core modules the loader lets through
builtInModules ==
    << "assert", "async_hooks", "buffer", "child_process", "cluster", "console",
       "constants", "crypto", "dgram", "dns", "domain", "events", "fs", "http",
       "http2", "https", "inspector", "module", "net", "os", "path", "perf_hooks",
       "process", "punycode", "querystring", "readline", "repl", "stream",
       "string_decoder", "timers", "tls", "trace_events", "tty", "url", "util",
       "v8", "vm", "worker_threads", "zlib" >>

\* names a fragment may ask for that are not core modules: npm packages,
\* local files, sub-paths and prefixed forms of core modules, other spellings
OtherModules == {"axios", "./local", "fs/promises", "node:fs", "Playwright", ""}

ModuleNames == {"playwright"} \cup {builtInModules[i] : i \in 1..Len(builtInModules)}
                   \cup OtherModules

\* a list that includes nothing
IncludesNothing(list, moduleName) == FALSE

\* Array.prototype.includes
Includes(list, moduleName) == \E i \in 1..Len(list) : list[i] = moduleName

\* require(moduleName) of a core module
CoreModule(moduleName) == [kind |-> "module", of |-> moduleName]

\* new Error(`Module '${moduleName}' is not allowed. ...`): the message, in
\* its literal and interpolated parts
NotAllowed(moduleName) ==
    [kind |-> "error",
     message |-> << "Module '", moduleName,
                    "' is not allowed. Only Node.js built-in modules and 'playwright' are available." >>]

safeRequire(moduleName) ==
    IF moduleName = "playwright" THEN playwrightModule
    ELSE IF Includes(builtInModules, moduleName) THEN CoreModule(moduleName)
    ELSE NotAllowed(moduleName)

\* the fragment calls require(moduleName), which is safeRequire; an error
\* it raises is the fragment's to handle
FragRequire(c, moduleName) ==
    /\ proc = "up"
    /\ calls[c].pc = "run"
    /\ Len(required) < MaxRequire
    /\ required' = Append(required, [call |-> started, name |-> moduleName,
                                     answer |-> safeRequire(moduleName)])
    /\ UNCHANGED <<signal, pipeFirst, lookup, globalBrowser, client, authVars, execVars, idVars>>

(***************************************************************************)
(* Graceful shutdown: process.on('SIGTERM') / process.on('SIGINT')         *)
(***************************************************************************)
Signals == {"SIGTERM", "SIGINT"}

\* the server accepts connections until server.close() is called
AcceptConn(c) ==
    /\ proc = "up"
    /\ signal = "none"
    /\ Connect(c)

\* the client of an authenticated connection calls service.execute
ExecuteOver(conn, c, m) ==
    /\ conns[conn].st = "open"
    /\ conns[conn].authenticated
    /\ ExecuteFrom(conn, c, m, MaxCalls)

\* the signal handler: server.close(callback); the server stops listening
\* and the callback is kept for the 'close' event
OnSignal(sig) ==
    /\ proc = "up"
    /\ signal = "none"
    /\ signal' = sig
    /\ UNCHANGED <<required, pipeFirst, lookup, globalBrowser, client, authVars, execVars, idVars>>

\* net.Server emits 'close' once it is not listening and every connection
\* it accepted has ended
AllConnectionsEnded == \A c \in Conns : conns[c].st # "open"

\* cleanupBrowserInstance for every id of the registry: the entry is
\* deleted and close is requested of a connected controller (not awaited)
CleanupAll(brs, reg) ==
    [b \in 1..Len(brs) |->
        IF brs[b].connected /\ \E i \in 1..Len(reg) : reg[i].b = b
        THEN [brs[b] EXCEPT !.closeReq = @ + 1]
        ELSE brs[b]]

\* the callback of server.close(): cleanup of every session, process.exit(0)
ServerClosed ==
    /\ proc = "up"
    /\ signal # "none"
    /\ AllConnectionsEnded
    /\ browsers' = CleanupAll(browsers, browserInstances)
    /\ browserInstances' = <<>>
    /\ proc' = "exited"
    /\ UNCHANGED <<calls, nextUuid, started, last, authVars, idVars, auxVars>>

(***************************************************************************)
(* Specifications                                                          *)
(***************************************************************************)
IdleAuthVars ==
    /\ password = <<"s">>
    /\ autoDestroy = FALSE
    /\ conns = [c \in Conns |-> NoConn]

IdleAuxVars ==
    /\ signal = "none"
    /\ required = <<>>
    /\ pipeFirst = FALSE
    /\ lookup = NoLookup
    /\ globalBrowser = 0
    /\ client = NoClient

InitExecVars ==
    /\ proc = "up"
    /\ browsers = <<>>
    /\ browserInstances = <<>>
    /\ calls = [c \in CallIds |-> NoCall]
    /\ nextUuid = 1
    /\ started = 0
    /\ last = NoCall

IdleIdVars ==
    /\ instances2 = <<>>
    /\ browsers2 = <<>>
    /\ calls2 = [c \in CallIds |-> NoCall2]
    /\ last2 = NoCall2

InitAuth == InitAuthVars /\ InitExecVars /\ IdleIdVars /\ IdleAuxVars

NextAuth ==
    \/ \E c \in Conns : Connect(c)
    \/ \E c \in Conns, chunk \in Chunks : AuthData(c, chunk)
    \/ \E c \in Conns, chunk \in Chunks : PipedData(c, chunk)
    \/ \E c \in Conns : ExecuteAnswered(c)
    \/ \E c \in Conns : PeerEnd(c)
    \/ \E c \in Conns : ClientTimer(c)
    \/ \E c \in Conns : Tick(c)

SpecAuth == InitAuth /\ [][NextAuth]_vars

\* the connection handler fed with input that holds a two-byte character
NextAuthBytes ==
    \/ \E c \in Conns : Connect(c)
    \/ \E c \in Conns, chunk \in ByteChunks : AuthData(c, chunk)
    \/ \E c \in Conns, chunk \in ByteChunks : PipedData(c, chunk)
    \/ \E c \in Conns : ExecuteAnswered(c)
    \/ \E c \in Conns : PeerEnd(c)

SpecAuthBytes == InitAuth /\ [][NextAuthBytes]_vars

\* the earlier connection handler
InitAuthEarly ==
    /\ InitAuthVars /\ InitExecVars /\ IdleIdVars
    /\ signal = "none"
    /\ required = <<>>
    /\ pipeFirst = TRUE
    /\ lookup = NoLookup
    /\ globalBrowser = 0
    /\ client = NoClient

NextAuthEarly ==
    \/ \E c \in Conns : Connect(c)
    \/ \E c \in Conns, chunk \in Chunks : AuthData(c, chunk)
    \/ \E c \in Conns, chunk \in Chunks : DroppedData(c, chunk)
    \/ \E c \in Conns : PeerEnd(c)

SpecAuthEarly == InitAuthEarly /\ [][NextAuthEarly]_vars

Init == IdleAuthVars /\ InitExecVars /\ IdleIdVars /\ IdleAuxVars

Next ==
    \/ \E c \in CallIds, m \in Metadata : Execute(c, m)
    \/ \E c \in CallIds : Launched(c)
    \/ \E c \in CallIds, dies \in BOOLEAN : LaunchFailed(c, dies)
    \/ \E c \in CallIds : FragNewContext(c)
    \/ \E c \in CallIds : FragNewBrowserPage(c)
    \/ \E c \in CallIds, i \in 1..MaxCtx : FragNewPage(c, i)
    \/ \E c \in CallIds, i \in 1..MaxCtx : FragCloseContext(c, i)
    \/ \E c \in CallIds : FragCloseBrowser(c)
    \/ \E c \in CallIds, r \in Results : FragReturn(c, r, {}, FALSE)
    \/ \E c \in CallIds, dies \in BOOLEAN : FragThrow(c, dies)
    \/ \E c \in CallIds, stay \in SUBSET (1..MaxCtx) : Policy(c, stay)
    \/ \E c \in CallIds : RequestClose(c)
    \/ \E c \in CallIds, ok \in BOOLEAN : CloseSettled(c, ok)
    \/ \E c \in CallIds, ok \in BOOLEAN : FallbackSettled(c, ok)

Spec == Init /\ [][Next]_vars

\* one execute call at a time, with every kind of return value and with the
\* automatic page capture switched on or off call by call
NextSeq ==
    \/ \E m \in MetadataCapture : Execute(1, m)
    \/ Launched(1)
    \/ \E dies \in BOOLEAN : LaunchFailed(1, dies)
    \/ FragNewContext(1)
    \/ FragNewBrowserPage(1)
    \/ \E i \in 1..MaxCtx : FragNewPage(1, i)
    \/ \E i \in 1..MaxCtx : FragCloseContext(1, i)
    \/ FragCloseBrowser(1)
    \/ \E r \in ResultKinds, fail \in SUBSET (1..(MaxCtx + 2)), enum \in BOOLEAN :
          FragReturn(1, r, fail, enum)
    \/ \E dies \in BOOLEAN : FragThrow(1, dies)
    \/ \E stay \in SUBSET (1..MaxCtx) : Policy(1, stay)
    \/ RequestClose(1)
    \/ \E ok \in BOOLEAN : CloseSettled(1, ok)
    \/ \E ok \in BOOLEAN : FallbackSettled(1, ok)

SpecSeq == Init /\ [][NextSeq]_vars

InitId == IdleAuthVars /\ InitExecVars /\ IdleIdVars /\ IdleAuxVars

NextId ==
    \/ \E c \in CallIds, m \in Metadata2 : Execute2(c, m)
    \/ \E c \in CallIds : Launched2(c)
    \/ \E c \in CallIds, dies \in BOOLEAN : LaunchFailed2(c, dies)
    \/ \E c \in CallIds : FragCloseBrowser2(c)
    \/ \E c \in CallIds : FragReturn2(c)
    \/ \E c \in CallIds, dies \in BOOLEAN : FragThrow2(c, dies)
    \/ \E c \in CallIds, ok \in BOOLEAN : CloseSettled2(c, ok)

SpecId == InitId /\ [][NextId]_vars

\* execute calls of one workflow execution, one at a time, whose fragments
\* load modules
MetadataOne == {m \in Metadata : m.workflowId = "w1" /\ m.executionId = "e1"}

\* Three calls of one workflow, one after the other, each resolving against
\* what the earlier ones registered
MetadataReuse == {m \in Metadata : m.workflowId = "w1" /\ ~m.keepPage}

NextReuse ==
    \/ \E m \in MetadataReuse : ExecuteWithin(1, m, MaxReuse)
    \/ Launched(1)
    \/ FragNewContext(1)
    \/ FragReturn(1, "mapping", {}, FALSE)
    \/ Policy(1, {})
    \/ RequestClose(1)
    \/ CloseSettled(1, TRUE)

SpecReuse == Init /\ [][NextReuse]_vars

NextRequire ==
    \/ \E m \in MetadataOne : Execute(1, m)
    \/ Launched(1)
    \/ \E moduleName \in ModuleNames : FragRequire(1, moduleName)
    \/ FragReturn(1, "mapping", {}, FALSE)
    \/ Policy(1, {})
    \/ \E ok \in BOOLEAN : CloseSettled(1, ok)
    \/ \E ok \in BOOLEAN : FallbackSettled(1, ok)

SpecRequire == Init /\ [][NextRequire]_vars

\* the server with its connections, execute calls made over them, and the
\* termination signals
InitStop == IdleAuthVars /\ InitExecVars /\ IdleIdVars /\ IdleAuxVars

\* the steps of an execute call that the server takes by itself
ServerSteps ==
    \/ Launched(1)
    \/ FragNewBrowserPage(1)
    \/ FragReturn(1, "mapping", {}, FALSE)
    \/ Policy(1, {})
    \/ RequestClose(1)
    \/ \E ok \in BOOLEAN : CloseSettled(1, ok)
    \/ \E ok \in BOOLEAN : FallbackSettled(1, ok)

NextStop ==
    \/ \E c \in Conns : AcceptConn(c)
    \/ \E c \in Conns : AuthData(c, password \o <<NL>>)
    \/ \E c \in Conns : PipedData(c, <<"H">>)
    \/ \E c \in Conns : PeerEnd(c)
    \/ \E c \in Conns, m \in Metadata : ExecuteOver(c, 1, m)
    \/ ServerSteps
    \/ \E sig \in Signals : OnSignal(sig)
    \/ ServerClosed

\* the event loop runs a callback that is due, and the server's own steps
\* of a call complete; peers are under no obligation to end a connection
SpecStop ==
    InitStop /\ [][NextStop]_vars /\ WF_vars(ServerClosed) /\ WF_vars(ServerSteps)

(***************************************************************************)
(* Properties of the authentication gate (SpecAuth)                        *)
(***************************************************************************)
RECURSIVE Count(_, _)
Count(s, x) == IF s = <<>> THEN 0 ELSE (IF Head(s) = x THEN 1 ELSE 0) + Count(Tail(s), x)

\* the RPC answers among what the peer received
HealthAnswers(k) == Count(k.out, health)

\* C1: on a connection whose first newline-terminated line is the secret the
\* server answers OK and every health call on it is answered (null, ok); on
\* a connection whose first line is not the secret the only thing the server
\* sends is AUTH_FAILED and its side of the socket is closed
ClaimC1 ==
    \A c \in Conns :
        LET k == conns[c] IN
        HasNL(k.recv) =>
            IF FirstLine(k.recv) = password
            THEN /\ k.out # <<>>
                 /\ k.out[1] = Line("OK")
                 /\ HealthAnswers(k) = Count(k.served, "health")
            ELSE /\ k.out = <<Line("AUTH_FAILED")>>
                 /\ ~k.writable

Seen == {calls[c] : c \in {d \in CallIds : Live(d)}}
            \cup (IF last.pc # "idle" THEN {last} ELSE {})

CtxIds(ctxs) == {ctxs[i].id : i \in 1..Len(ctxs)}

\* the call was given a controller launched for it
MadeController(k) == k.pc = "launch" \/ k.createdNewInstance

\* C3: a fragment that throws Error("boom") makes execute answer its callback
\* with (error = "boom", result = null); the process stays up and the caller
\* gets its answer
ClaimC3 ==
    last.thrown = "boom" =>
        /\ last.pc = "done"
        /\ last.error = "boom"
        /\ last.payload = "null"
        /\ proc = "up"

\* C4: after an execute whose fragment threw, a session without retention
\* has its controller closed and its entry evicted, and a session with
\* retention still has its registry entry
ClaimC4 ==
    last.thrown = "boom" =>
        IF ~last.keepContext THEN ~last.aLive /\ ~last.aEntry
        ELSE last.aEntry

\* C5 as stated: after an execute call with keepContext=false has returned,
\* no registry entry matches its (workflowId, executionId) and the controller
\* it used is closed
ClaimC5 ==
    (last.pc = "done" /\ ~last.keepContext) => ~last.aMatch /\ ~last.aLive

\* C5 amended: after an execute call with keepContext=false has returned, no
\* resolution finds the session the call used (its entry is evicted or its
\* controller is disconnected), and the controller is closed unless the
\* close the call requested failed
AmendedC5 ==
    (last.pc = "done" /\ ~last.keepContext) =>
        /\ ~(last.aEntry /\ last.aLive)
        /\ last.aLive => last.closeFailed

\* an existing session found by exact match, torn down by a keepContext=false call
WitnessC5 ==
    /\ last.pc = "done" /\ ~last.keepContext /\ ~last.createdNewInstance
    /\ last.sawExact /\ last.bEntry /\ last.bCtxs # <<>>
    /\ ~last.aEntry /\ ~last.aLive

\* C6: after an execute call with keepContext=true, keepPage=false, whether
\* its fragment returned or threw, every context that was open is still
\* open, every page is closed, the controller is connected and the session
\* is registered (for a controller that was connected when the fragment
\* ended and page closes that do not fail)
ClaimC6 ==
    (/\ last.pc \in {"done", "rejected"} /\ last.thrown # "launch failed"
     /\ last.keepContext /\ ~last.keepPage
     /\ last.bLive /\ last.stay = {}) =>
        /\ CtxIds(last.aCtxs) = CtxIds(last.bCtxs)
        /\ \A i \in 1..Len(last.aCtxs) : last.aCtxs[i].pages = 0
        /\ last.aLive
        /\ last.aEntry

ClaimC8 ==
    \A k \in Seen :
        (~k.sawExact /\ k.sawPersistent) =>
            IF k.keepContext
            THEN /\ k.reusedPersistentContext
                 /\ ~MadeController(k)
                 /\ k.browserRecord # 0
                 /\ browsers[k.browserRecord].workflowId = k.workflowId
                 /\ browsers[k.browserRecord].persistentContext
            ELSE /\ ~k.reusedPersistentContext
                 /\ k.browserRecord = 0 \/ k.createdNewInstance

\* a call of another execution reusing the persistent session of its workflow
WitnessC8 ==
    \E k \in Seen :
        /\ ~k.sawExact /\ k.sawPersistent /\ k.keepContext
        /\ k.reusedPersistentContext
        /\ browsers[k.browserRecord].executionId # k.executionId

\* C10: a controller is registered, under an id no other entry has, exactly
\* when the call that launched it has keepContext set; a controller launched
\* without keepContext is never in the registry and the call returns no id
ClaimC10 ==
    /\ \A i \in 1..Len(browserInstances) :
          /\ browsers[browserInstances[i].b].keepContext
          /\ browserInstances[i].id < nextUuid
          /\ \A j \in 1..Len(browserInstances) :
                browserInstances[j].id = browserInstances[i].id => j = i
    /\ \A k \in Seen :
          k.createdNewInstance =>
              IF k.keepContext
              THEN /\ k.activeInstanceId # 0
                   /\ browsers[k.browserRecord].closeReq = 0 =>
                         \E i \in 1..Len(browserInstances) :
                            /\ browserInstances[i].id = k.activeInstanceId
                            /\ browserInstances[i].b = k.browserRecord
                   /\ k.pc = "done" => k.instanceIdToReturn = k.activeInstanceId
              ELSE /\ k.activeInstanceId = 0
                   /\ k.instanceIdToReturn = 0
                   /\ \A i \in 1..Len(browserInstances) :
                         browserInstances[i].b # k.browserRecord

\* a call with keepContext launched and registered a controller and got its
\* id back, and a later call without keepContext launched one that is not
\* registered
WitnessC10 ==
    /\ last.pc = "done" /\ last.createdNewInstance /\ last.keepContext
    /\ last.instanceIdToReturn # 0 /\ last.aEntry
    /\ \E c \in CallIds :
          /\ calls[c].createdNewInstance /\ ~calls[c].keepContext
          /\ browsers[calls[c].browserRecord].connected

(***************************************************************************)
(* Properties of service.execute, explicit-instance-id server (SpecId)     *)
(***************************************************************************)
\* C9: a call that names an instance id which is not in the registry, or
\* whose controller is disconnected, answers the not-found error as the RPC
\* error; the fragment is not run, no controller is launched and no entry is
\* registered
ClaimC9 ==
    /\ \A c \in CallIds : ~calls2[c].badId
    /\ last2.badId =>
          /\ last2.pc = "done"
          /\ last2.error = "not found or already closed"
          /\ last2.payload = "null"
          /\ ~last2.ran
          /\ ~last2.createdNewInstance
          /\ ~last2.registered
          /\ last2.browserRecord = 0

\* the id of a registered session whose controller is disconnected was refused
WitnessC9 ==
    /\ last2.badId /\ last2.stale
    /\ last2.error = "not found or already closed"

(***************************************************************************)
(* Properties of the response payload                                      *)
(***************************************************************************)
\* context-retention server: a returned mapping goes back as it is, and the
\* session id is in the answer exactly when retention was in force for the
\* call and its session is still registered with a connected controller
SameMappingIdIffKept ==
    (last.pc = "done" /\ last.result = "mapping" /\ ~last.autoScreenshot) =>
        /\ last.error = "null"
        /\ last.payload = "mapping"
        /\ last.items = ItemsOf("mapping")
        /\ (last.instanceIdToReturn # 0 <=> (last.keepContext /\ last.aEntry /\ last.aLive))

\* explicit-id server: the same, retention being keepInstance
SameMappingIdIffKept2 ==
    (last2.pc = "done" /\ last2.error = "null") =>
        /\ last2.payload = "mapping"
        /\ (last2.instanceIdToReturn # 0 => last2.keepInstance)
        /\ (last2.keepInstance /\ last2.registered => last2.instanceIdToReturn # 0)

\* C11: when the fragment returns a mapping and automatic capture is off,
\* the RPC result is that mapping, and the session-id field is added if and
\* only if retention was requested for this call and the session was kept;
\* it is never added when retention was not requested
ClaimC11 == SameMappingIdIffKept /\ SameMappingIdIffKept2

(***************************************************************************)
(* Properties of the automatic page capture (SpecSeq)                      *)
(***************************************************************************)
\* the attachments the first item of the first output channel gained
Gained(k) == IF k.items = <<>> THEN {} ELSE k.items[1]

\* C12: with automatic capture on, a call that ends with no snapshot taken
\* returns its result unchanged and without error; with exactly one snapshot
\* the first item of the first output channel gains exactly the attachment
\* "screenshot"; with n >= 2 snapshots it gains exactly the n attachments
\* "screenshot_0" .. "screenshot_{n-1}" (an item is created when the channel
\* has none)
ClaimC12 ==
    (last.pc = "done" /\ last.autoScreenshot) =>
        /\ last.error = "null"
        /\ IF last.shots = 0
           THEN last.items = ItemsOf(last.result)
           ELSE /\ Len(last.items) >= 1
                /\ Cardinality(Gained(last)) = last.shots
                /\ (last.shots = 1 => Gained(last) = {"screenshot"})
                /\ (last.shots >= 2 =>
                       Gained(last) = {"screenshot_" \o ToString(i) : i \in 0..(last.shots - 1)})

\* the policy took effect on the session of the call that ended last
PolicyApplied(k) ==
    /\ PolicyOf(k.keepContext, k.keepPage) = "keepNothing" =>
          /\ ~(k.aEntry /\ k.aLive)
          /\ k.aLive => k.closeFailed
    /\ (PolicyOf(k.keepContext, k.keepPage) = "keepScope" /\ k.bLive /\ k.stay = {}) =>
          /\ CtxIds(k.aCtxs) = CtxIds(k.bCtxs)
          /\ \A i \in 1..Len(k.aCtxs) : k.aCtxs[i].pages = 0
          /\ k.aLive /\ k.aEntry
    /\ PolicyOf(k.keepContext, k.keepPage) = "keepAll" =>
          /\ k.aCtxs = k.bCtxs
          /\ k.aLive = k.bLive
          /\ k.aEntry = k.bEntry

\* C13: a failure inside the automatic capture (enumerating the pages,
\* taking a snapshot, merging the snapshots into a result of any shape)
\* never fails the execute call: the callback receives (null, result) once,
\* and the retention policy is applied as without the capture
ClaimC13 ==
    /\ \A c \in CallIds : calls[c].thrown # "hook"
    /\ last.thrown # "hook"
    /\ \A c \in CallIds :
          (calls[c].hookError \/ calls[c].shotFailed) =>
              calls[c].pc \in {"policy", "closeBrowser", "awaitClose", "awaitFallback"}
    /\ (last.hookError \/ last.shotFailed) =>
          /\ last.pc = "done"
          /\ last.error = "null"
          /\ last.answers = 1
          /\ last.payload = (IF last.result = "primitive" THEN "wrapped" ELSE last.result)
          /\ PolicyApplied(last)

\* the merge into a non-object result failed after a snapshot was taken;
\* the call answered the wrapped value and the pages were closed
WitnessC13 ==
    /\ last.pc = "done" /\ last.hookError /\ last.result = "primitive"
    /\ last.shots >= 1 /\ last.payload = "wrapped" /\ last.error = "null"
    /\ last.keepContext /\ ~last.keepPage
    /\ \E i \in 1..Len(last.bCtxs) : last.bCtxs[i].pages > 0
    /\ \A i \in 1..Len(last.aCtxs) : last.aCtxs[i].pages = 0

(***************************************************************************)
(* Properties of the shutdown (SpecStop)                                   *)
(***************************************************************************)
\* C14: after a termination signal the process eventually requests close of
\* every registered controller, evicts every entry and exits, whatever
\* connections are open and whatever execute call is running
ClaimC14 ==
    (signal # "none") ~> (proc = "exited" /\ browserInstances = <<>>)

(***************************************************************************)
(* Properties of the handshake (SpecAuth)                                  *)
(***************************************************************************)
\* C15: a connection that is not authenticated is not open beyond the
\* bounded wait of Timeout time units, also when the peer never sends a
\* newline
ClaimC15 ==
    \A c \in Conns :
        (conns[c].st = "open" /\ ~conns[c].authenticated) => conns[c].age <= Timeout

\* C17: a connection is accepted only when its first line is exactly the
\* secret; every first line that differs from the secret in any character,
\* added leading or trailing whitespace included, is answered AUTH_FAILED
ClaimC17 ==
    \A c \in Conns :
        LET k == conns[c] IN
        /\ k.authenticated => (HasNL(k.recv) /\ FirstLine(k.recv) = password)
        /\ (HasNL(k.recv) /\ FirstLine(k.recv) # password) =>
              (k.out # <<>> /\ k.out[1] = Line("AUTH_FAILED"))

(***************************************************************************)
(* Properties of the callback of service.execute (Spec)                    *)
(***************************************************************************)
\* C16: every execute call answers through its callback exactly once, with
\* (null, result) or with (error, null): not before the fragment completed
\* or failed, and once it has, never twice and never not at all
ClaimC16 ==
    /\ \A c \in CallIds : calls[c].answers = 0
    /\ (last.pc \in {"done", "rejected"} /\ last.thrown # "launch failed") =>
          /\ last.answers = 1
          /\ \/ last.error = "null" /\ last.payload \notin {"", "null"}
             \/ last.error \notin {"", "null"} /\ last.payload = "null"

(***************************************************************************)
(* Properties of safeRequire (SpecRequire)                                 *)
(***************************************************************************)
\* the fixed allow-list
AllowList == {"playwright"} \cup {builtInModules[i] : i \in 1..Len(builtInModules)}

\* C18: safeRequire returns a capability for every name of the fixed
\* allow-list ('playwright' and the list of core modules) and raises an
\* error whose message contains the requested name for every other name;
\* the answer for a name is the same in every call
ClaimC18 ==
    /\ \A i \in 1..Len(required) :
          LET r == required[i] IN
          IF r.name \in AllowList
          THEN r.answer.kind = "module" /\ r.answer.of = r.name
          ELSE /\ r.answer.kind = "error"
               /\ \E j \in 1..Len(r.answer.message) : r.answer.message[j] = r.name
    /\ \A i, j \in 1..Len(required) :
          required[i].name = required[j].name => required[i].answer = required[j].answer

\* two execute calls asked for modules: the first got a core module, the
\* second was refused an npm package
WitnessC18 ==
    /\ Len(required) = 2
    /\ required[1].call # required[2].call
    /\ required[1].name = "fs" /\ required[1].answer.kind = "module"
    /\ required[2].name = "axios" /\ required[2].answer.kind = "error"

(***************************************************************************)
(* Properties of the wrapping of the return value (SpecSeq)                *)
(***************************************************************************)
\* C19: when the fragment returns a value that is not a mapping of output
\* channels (null, undefined, a primitive, or an array), the call succeeds
\* and its result is the minimal mapping that wraps the value
ClaimC19 ==
    (last.result \in {"primitive", "array"}) =>
        /\ last.pc = "done"
        /\ last.error = "null"
        /\ last.payload = "wrapped"

ClaimC21 ==
    (last.pc = "done" /\ last.keepContext /\ last.keepPage) =>
        /\ CtxIds(last.aCtxs) = CtxIds(last.bCtxs)
        /\ Len(last.aCtxs) = Len(last.bCtxs)
        /\ \A i \in 1..Len(last.bCtxs) : last.aCtxs[i].pages = last.bCtxs[i].pages
        /\ (last.aLive <=> last.bLive)
        /\ (last.aEntry <=> last.bEntry)

\* a keepAll call reused a registered session that had an open page and
\* left it registered, connected, with the page open
WitnessC21 ==
    /\ last.pc = "done" /\ last.keepContext /\ last.keepPage
    /\ ~last.createdNewInstance
    /\ last.bLive /\ last.bEntry /\ last.aLive /\ last.aEntry
    /\ \E i \in 1..Len(last.bCtxs) : last.bCtxs[i].pages > 0
    /\ \E i \in 1..Len(last.aCtxs) : last.aCtxs[i].pages > 0

\* C22: a failure while closing a page, a context or the controller in the
\* lifecycle management is never surfaced to the caller: the call answers
\* as it does when the close succeeds, and under keepNothing the registry
\* entry of the session is evicted all the same
ClaimC22 ==
    /\ last.thrown # "close"
    /\ \A c \in CallIds : calls[c].thrown # "close"
    /\ (last.closeFailed \/ last.stay # {}) =>
          /\ last.pc = "done"
          /\ last.error = "null"
          /\ last.answers = 1
          /\ last.payload = (IF last.result = "primitive" THEN "wrapped" ELSE last.result)
          /\ (last.instanceIdToReturn # 0 <=> last.keepContext)
          /\ ~last.keepContext => ~last.aEntry

\* a keepNothing call on a registered session: a context close and the
\* controller close both failed, the call answered its result and the entry
\* is gone
WitnessC22 ==
    /\ last.pc = "done" /\ ~last.keepContext
    /\ last.closeFailed /\ last.stay # {}
    /\ last.bEntry /\ ~last.aEntry /\ last.aLive
    /\ last.error = "null" /\ last.payload = "mapping"

(***************************************************************************)
(* Properties of the hand-over to the RPC layer (SpecAuth, SpecAuthEarly)  *)
(***************************************************************************)
\* C23: on a connection accepted on its first line, what the server received
\* after the newline of the secret, in the same chunk or in later ones, is
\* what the RPC layer was given, once and in order, and the handshake
\* parser sees nothing that arrives after the OK
ClaimC23 ==
    \A c \in Conns :
        LET k == conns[c] IN
        (k.authenticated /\ ~k.rejected) =>
            /\ k.rpc = AfterFirstNL(k.recv)
            /\ ~k.authListener
            /\ k.buffer = <<>>

(***************************************************************************)
(* Properties of the order of the steps of service.execute (SpecSeq)       *)
(***************************************************************************)
\* C24: the automatic capture also runs after a failed execution: when
\* autoScreenshot is requested, the fragment throws and the controller is
\* connected, a snapshot of the open pages is attempted before the call ends
ClaimC24 ==
    (/\ last.pc \in {"done", "rejected"}
     /\ last.autoScreenshot
     /\ last.thrown = "boom"
     /\ last.bLive) => last.hookRan


\* ---------------------------------------------------------------------
\* Order of the steps of one execute call

\* position of a step in the order resolution, fragment, policy, capture, callback
RankPolicyFirst(step) ==
    CASE step = "resolve" -> 1 [] step = "run" -> 2 [] step = "policy" -> 3
      [] step = "capture" -> 4 [] OTHER -> 5

\* position of a step in the order resolution, fragment, capture, policy, callback
RankCaptureFirst(step) ==
    CASE step = "resolve" -> 1 [] step = "run" -> 2 [] step = "capture" -> 3
      [] step = "policy" -> 4 [] OTHER -> 5

\* C25: within every execute call the steps occur in the order session
\* resolution, fragment run, retention-policy application, auto-capture,
\* callback; auto-capture happens after the policy has been applied
ClaimC25 ==
    last.pc = "done" =>
        \A i, j \in 1..Len(last.steps) :
            i < j => RankPolicyFirst(last.steps[i]) < RankPolicyFirst(last.steps[j])

\* C25 as the handler orders it: session resolution, fragment run,
\* auto-capture (when requested on a connected controller), retention-policy
\* application, callback; the capture happens before the policy is applied
AmendedC25 ==
    last.pc = "done" =>
        /\ \A i, j \in 1..Len(last.steps) :
              i < j => RankCaptureFirst(last.steps[i]) < RankCaptureFirst(last.steps[j])
        /\ last.steps[1] = "resolve" /\ last.steps[2] = "run"
        /\ last.steps[Len(last.steps)] = "callback"
        /\ last.steps[Len(last.steps) - 1] = "policy"
        /\ (last.autoScreenshot /\ last.bLive) => last.steps[3] = "capture"

WitnessC25 ==
    /\ last.pc = "done"
    /\ last.steps = <<"resolve", "run", "capture", "policy", "callback">>
    /\ last.shots > 0
    /\ ~last.keepContext
    /\ ~last.aLive


\* ---------------------------------------------------------------------
\* primaryContext after policy application

\* the session of the call that ended stays registered, live and persistent
StaysPersistent(k) ==
    k.pc = "done" /\ k.keepContext /\ k.aEntry /\ k.aLive /\ k.aPersistent

\* C26: after policy application on a session that remains persistent,
\* primaryContext is the first still-live context of the controller, or null
\* when no context remains live; it never points at a closed context when
\* the execute call returns
ClaimC26 ==
    StaysPersistent(last) =>
        last.aPrimary = IF last.aCtxs = <<>> THEN 0 ELSE last.aCtxs[1].id

\* the part of C26 about sessions that still have a live context
PrimaryIsFirstLive ==
    (StaysPersistent(last) /\ last.aCtxs # <<>>) => last.aPrimary = last.aCtxs[1].id


\* ---------------------------------------------------------------------
\* lastExecutionId of a reused session

\* call c has resolved to a session that existed before it arrived
Reuses(c) ==
    calls[c].pc = "run" /\ ~calls[c].createdNewInstance /\ calls[c].ops = 0

\* C27: after any resolution that reuses an existing session, by exact
\* (workflowId, executionId) match or by persistent fallback, the session's
\* lastExecutionId equals the executionId of the resolving call
ClaimC27 ==
    \A c \in CallIds :
        Reuses(c) =>
            browsers[calls[c].browserRecord].lastExecutionId = calls[c].executionId

\* the part of C27 about the persistent fallback
FallbackSetsLastExecutionId ==
    \A c \in CallIds :
        (Reuses(c) /\ calls[c].reusedPersistentContext) =>
            browsers[calls[c].browserRecord].lastExecutionId = calls[c].executionId


\* ---------------------------------------------------------------------
\* Overlapping calls

\* registry entries i and j hold two live controllers of one workflow
TwoControllers(i, j) ==
    /\ i # j
    /\ browserInstances[i].b # browserInstances[j].b
    /\ browsers[browserInstances[i].b].workflowId =
          browsers[browserInstances[j].b].workflowId
    /\ browsers[browserInstances[i].b].connected
    /\ browsers[browserInstances[j].b].connected

\* C28: controller construction is at most once per session identity under
\* every interleaving: when two execute calls with retention requested and
\* the same workflowId overlap and neither finds an existing session, at most
\* one controller is launched and registered for that workflow
ClaimC28 ==
    \A i, j \in 1..Len(browserInstances) : ~TwoControllers(i, j)


\* call d is still running its fragment on the controller that the call
\* which ended last had resolved to in the registry
StillRunningOn(d) ==
    /\ calls[d].pc = "run"
    /\ last.pc = "done"
    /\ ~last.createdNewInstance
    /\ last.browserRecord # 0
    /\ calls[d].browserRecord = last.browserRecord

\* C29: no mutual exclusion guards a session: two overlapping execute calls
\* resolve to the same registered session and run their fragments on the
\* same controller at the same time, and the keepNothing teardown of one
\* closes the controller and evicts the entry while the other call's
\* fragment is still running
ClaimC29 ==
    \A d \in CallIds :
        (StillRunningOn(d) /\ ~last.keepContext /\ last.bLive) =>
            /\ ~last.aEntry
            /\ ~last.closeFailed => ~last.aLive
            /\ ~last.aLive => ~browsers[calls[d].browserRecord].connected
            /\ \A i \in 1..Len(browserInstances) :
                  browserInstances[i].b # calls[d].browserRecord

WitnessC29 ==
    \E d \in CallIds :
        /\ StillRunningOn(d)
        /\ ~last.keepContext /\ last.bLive /\ last.bEntry
        /\ ~last.aEntry /\ ~last.aLive
        /\ calls[d].keepContext
        /\ calls[d].activeInstanceId # 0
        /\ ~browsers[calls[d].browserRecord].connected


\* ---------------------------------------------------------------------
\* Calls served on one connection

\* C30: within one authenticated connection exactly one execute call is
\* served: a second execute call arriving on the same connection is not
\* served by the server
ClaimC30 ==
    \A c \in Conns :
        Cardinality({i \in 1..Len(conns[c].served) : conns[c].served[i] = "execute"}) <= 1


\* ---------------------------------------------------------------------
\* A connection that drops while its call is in flight

\* call c is in flight and the connection it arrived on has ended
Dropped(c) ==
    /\ Live(c)
    /\ calls[c].conn # ""
    /\ conns[calls[c].conn].st = "closed"

\* C31: a connection that drops while its execute call is in flight does
\* not cancel the call: the fragment runs to completion or failure and the
\* retention policy is then applied as if the connection were still open
ClaimC31 ==
    \A c \in CallIds :
        Dropped(c) ~> (~Live(c) /\ last.pc \in {"done", "rejected"} /\ last.conn # "")

\* the same while no termination signal has been received
CompletesUnlessSignalled ==
    \A c \in CallIds :
        Dropped(c) ~> ((~Live(c) /\ last.pc \in {"done", "rejected"}) \/ signal # "none")

\* the end of a connection changes nothing of the execute calls, the
\* controllers and the registry
DropLeavesCallsAlone ==
    [][(\E k \in Conns : conns[k].st = "open" /\ conns'[k].st = "closed")
         => UNCHANGED <<calls, browsers, browserInstances, last>>]_vars


\* ---------------------------------------------------------------------
\* Removal of registry entries

\* the entries of a registry that a step removes
Removed(reg, regNext) ==
    {e \in {reg[i] : i \in 1..Len(reg)} :
        \A j \in 1..Len(regNext) : regNext[j].id # e.id}

\* the step ends the awaited close of a call without keepContext that
\* holds the entry
TeardownOf(e) ==
    \E c \in CallIds :
        /\ calls[c].pc = "awaitClose" /\ calls'[c].pc # "awaitClose"
        /\ ~calls[c].keepContext
        /\ calls[c].activeInstanceId = e.id

\* the step is the callback of server.close()
ShutdownStep == signal # "none" /\ proc = "up" /\ proc' = "exited"

\* the step is a lookup of the entry's explicit id that finds its
\* controller disconnected
StaleLookupOf(e) ==
    /\ last2' # last2
    /\ last2'.requestedInstanceId = e.id
    /\ last2'.error = "not found or already closed"
    /\ ~browsers2[e.b].connected

\* C32: a registry entry is removed only by retention-policy teardown with
\* keepNothing, by an explicit-id lookup that finds the controller no longer
\* live, or by process shutdown; every removal is accompanied by the
\* controller being closed or already dead
ClaimC32 ==
    [][/\ \A e \in Removed(browserInstances, browserInstances') :
            /\ TeardownOf(e) \/ ShutdownStep
            /\ ~browsers'[e.b].connected \/ proc' = "exited"
       /\ \A e \in Removed(instances2, instances2') : StaleLookupOf(e)]_vars

\* C32 with the close that fails: the entry is removed by the teardown all
\* the same, after close was requested of its controller
AmendedC32 ==
    [][/\ \A e \in Removed(browserInstances, browserInstances') :
            /\ TeardownOf(e) \/ ShutdownStep
            /\ \/ ~browsers'[e.b].connected
               \/ proc' = "exited"
               \/ browsers'[e.b].closeReq > 0
       /\ \A e \in Removed(instances2, instances2') : StaleLookupOf(e)]_vars

\* a keepNothing teardown has removed the entry of a session that an
\* earlier call registered, and shutdown has removed another
WitnessC32 ==
    /\ last.pc = "done" /\ ~last.keepContext /\ ~last.createdNewInstance
    /\ last.bEntry /\ ~last.aEntry /\ last.closeFailed /\ last.aLive
    /\ browserInstances = <<>>
    /\ \A c \in Conns : Len(conns[c].served) > 0


\* ---------------------------------------------------------------------
\* Close requests per controller

\* C33: each controller is created once and its close is requested at most
\* once over its whole lifetime, under every interleaving of execute
\* teardowns (success path, fallback close, exception path) and shutdown
ClaimC33 ==
    \A b \in 1..Len(browsers) : browsers[b].closeReq <= 1


\* ---------------------------------------------------------------------
\* getContextByName

\* context ids and the names looked up, as text
ContextIds == {<<"a">>, <<"a", "-", "1">>, <<"a", "-", "2">>, <<"b">>}
ContextNames == {<<"a">>, <<"b">>, <<"a", "-">>}

\* one entry of browserRecord.contexts with its contextMetadata: the id,
\* whether browser.contexts() still includes the context, its createdAt
NamedContexts == [id : ContextIds, live : BOOLEAN, createdAt : 1..MaxStamp]

\* the contexts Map, in insertion order, keys distinct
NamedMaps ==
    {m \in UNION {[1..n -> NamedContexts] : n \in 0..MaxNamed} :
        \A i, j \in 1..Len(m) : i # j => m[i].id # m[j].id}

\* String.prototype.startsWith
StartsWith(text, prefix) ==
    Len(prefix) <= Len(text) /\ SubSeq(text, 1, Len(prefix)) = prefix

\* extractTimestamp is called at 864 and 869 and defined nowhere in the
\* script: evaluating the call throws a ReferenceError
extractTimestamp(contextId) == "ReferenceError"

\* the candidates the loop of getContextByName pushes
Matching(contexts, contextName) ==
    {i \in 1..Len(contexts) :
        /\ contexts[i].live
        /\ \/ contexts[i].id = contextName
           \/ StartsWith(contexts[i].id, contextName \o <<"-">>)}

\* getContextByName: null on an empty Map; otherwise each live entry that
\* matches has its timestamp extracted, and the candidates are sorted by
\* timestamp, descending
getContextByName(contexts, contextName) ==
    IF Len(contexts) = 0 THEN "null"
    ELSE LET matching == Matching(contexts, contextName) IN
         IF \E i \in matching : extractTimestamp(contexts[i].id) = "ReferenceError"
         THEN "ReferenceError"
         ELSE "null"

\* the fragment calls getContext(name)
GetContext ==
    /\ lookup.result = "none"
    /\ lookup' = [lookup EXCEPT !.result = getContextByName(lookup.contexts, lookup.name)]
    /\ UNCHANGED <<signal, required, pipeFirst, globalBrowser, client, authVars, execVars, idVars>>

\* environment.listContexts: the keys of browserRecord.contexts
listContexts(contexts) == [i \in 1..Len(contexts) |-> contexts[i].id]

\* environment.persistentContexts handed over as the Map of the record itself
WriteThrough(contexts, copy) == copy

\* browserRecord.contexts after the fragment wrote to
\* environment.persistentContexts, which is a Map made by new Map(...)
AfterWriteToCopy(contexts, copy) == contexts

\* the fragment sets an entry in environment.persistentContexts
FragSetNamed(c, e) ==
    /\ proc = "up"
    /\ calls[c].pc = "run"
    /\ Len(calls[c].persistentContexts) < MaxNamed
    /\ \A i \in 1..Len(calls[c].persistentContexts) :
          calls[c].persistentContexts[i].id # e.id
    /\ LET b == calls[c].browserRecord
           copy == Append(calls[c].persistentContexts, e)
       IN  /\ calls' = [calls EXCEPT ![c] = [@ EXCEPT !.persistentContexts = copy]]
           /\ browsers' = [browsers EXCEPT ![b] = [@ EXCEPT
                  !.contexts = AfterWriteToCopy(@, copy)]]
    /\ UNCHANGED <<proc, browserInstances, nextUuid, started, last, authVars, idVars, auxVars>>

\* the fragment calls getContext(name) of its session
FragGetContext(c, contextName) ==
    /\ proc = "up"
    /\ calls[c].pc = "run"
    /\ LET named == browsers[calls[c].browserRecord].contexts IN
       lookup' = [contexts |-> named, name |-> contextName,
                  result |-> getContextByName(named, contextName), listed |-> <<>>]
    /\ UNCHANGED <<signal, required, pipeFirst, globalBrowser, client, authVars, execVars, idVars>>

\* the fragment calls listContexts() of its session
FragListContexts(c) ==
    /\ proc = "up"
    /\ calls[c].pc = "run"
    /\ LET named == browsers[calls[c].browserRecord].contexts IN
       lookup' = [contexts |-> named, name |-> <<>>,
                  result |-> "listed", listed |-> listContexts(named)]
    /\ UNCHANGED <<signal, required, pipeFirst, globalBrowser, client, authVars, execVars, idVars>>

\* entries a fragment may write: two ids that the name "a" matches, live
\* or closed, one creation timestamp being enough
WrittenContexts ==
    {e \in NamedContexts : e.createdAt = 1 /\ e.id \in {<<"a">>, <<"a", "-", "1">>}}

NextNamed ==
    \/ \E m \in MetadataOne : Execute(1, m)
    \/ Launched(1)
    \/ FragNewContext(1)
    \/ \E e \in WrittenContexts : FragSetNamed(1, e)
    \/ \E contextName \in ContextNames : FragGetContext(1, contextName)
    \/ FragListContexts(1)
    \/ FragReturn(1, "mapping", {}, FALSE)
    \/ Policy(1, {})
    \/ RequestClose(1)
    \/ CloseSettled(1, TRUE)

SpecNamed == Init /\ [][NextNamed]_vars

InitLookup ==
    /\ IdleAuthVars /\ InitExecVars /\ IdleIdVars
    /\ signal = "none" /\ required = <<>> /\ pipeFirst = FALSE /\ globalBrowser = 0
    /\ client = NoClient
    /\ lookup \in [contexts : NamedMaps, name : ContextNames, result : {"none"},
                    listed : {<<>>}]

NextLookup == GetContext

SpecLookup == InitLookup /\ [][NextLookup]_vars

\* the live entries of the Map whose id is the name or starts with name-
Candidates == Matching(lookup.contexts, lookup.name)

NullWithoutCandidate ==
    (lookup.result # "none" /\ Candidates = {}) => lookup.result = "null"


\* ---------------------------------------------------------------------
\* Controller handles reachable from a fragment

\* C35: during an execute call resolved to session S, the only controller
\* handle the fragment can reach through what the service provides is S's
\* controller: no handle to the controller of another session is made
\* reachable to it through process-wide state
ClaimC35 ==
    \A d \in CallIds :
        calls[d].pc = "run" => globalBrowser = calls[d].browserRecord


\* ---------------------------------------------------------------------
\* The persistent mark of registered sessions

\* C36: in every reachable state every registry entry is marked
\* persistent: entries are inserted only by calls with retention requested,
\* the persistent flag is never cleared, and the controller of a session
\* created without retention is never in the registry
ClaimC36 ==
    /\ \A i \in 1..Len(browserInstances) :
          /\ browsers[browserInstances[i].b].persistentContext
          /\ browsers[browserInstances[i].b].keepContext
    /\ \A c \in CallIds :
          (calls[c].createdNewInstance /\ ~calls[c].keepContext) =>
              \A i \in 1..Len(browserInstances) :
                  browserInstances[i].b # calls[c].browserRecord

\* a call without retention is running on a registered session, next to a
\* call with retention that created and registered a controller
WitnessC36 ==
    /\ Len(browserInstances) > 0
    /\ \E c, d \in CallIds :
          /\ calls[c].pc = "run" /\ ~calls[c].keepContext /\ ~calls[c].createdNewInstance
          /\ \E i \in 1..Len(browserInstances) :
                browserInstances[i].b = calls[c].browserRecord
          /\ calls[d].pc = "run" /\ calls[d].keepContext /\ calls[d].createdNewInstance


\* ---------------------------------------------------------------------
\* One live session per workflow when calls do not overlap

\* the registry entries of workflow wf whose controller is connected
LiveEntries(wf) ==
    {i \in 1..Len(browserInstances) :
        /\ browsers[browserInstances[i].b].workflowId = wf
        /\ browsers[browserInstances[i].b].connected}

\* C37: in every run in which execute calls do not overlap, the registry
\* never holds two entries with live controllers for the same workflowId
ClaimC37 ==
    \A wf \in WorkflowIds : Cardinality(LiveEntries(wf)) <= 1

\* the registry holds two entries of one workflow, the first with a
\* controller that the fragment closed, the second live
WitnessC37 ==
    /\ Len(browserInstances) = 2
    /\ browsers[browserInstances[1].b].workflowId = browsers[browserInstances[2].b].workflowId
    /\ ~browsers[browserInstances[1].b].connected
    /\ browsers[browserInstances[2].b].connected
    /\ calls[1].pc = "idle"


\* ---------------------------------------------------------------------
\* The controller handed to a fragment

\* C38: the controller injected into a fragment is live at the moment the
\* fragment starts: resolution never hands a registered session whose
\* controller is disconnected to a fragment; it skips such an entry and
\* resolves to another live session or a newly created controller
ClaimC38 ==
    [][/\ \A c \in CallIds :
            (calls[c].pc # "run" /\ calls'[c].pc = "run") =>
                browsers'[calls'[c].browserRecord].connected
       /\ \A c \in CallIds :
            (calls2[c].pc # "run" /\ calls2'[c].pc = "run") =>
                browsers2'[calls2'[c].browserRecord].connected]_vars

\* a call runs on a controller it created while the registry still holds
\* the entry of its (workflowId, executionId) with a disconnected controller
WitnessC38 ==
    \E c \in CallIds :
        /\ calls[c].pc = "run" /\ calls[c].createdNewInstance
        /\ browsers[calls[c].browserRecord].connected
        /\ \E i \in 1..Len(browserInstances) :
              /\ browserInstances[i].b # calls[c].browserRecord
              /\ ~browsers[browserInstances[i].b].connected
              /\ browsers[browserInstances[i].b].workflowId = calls[c].workflowId
              /\ browsers[browserInstances[i].b].executionId = calls[c].executionId


\* ---------------------------------------------------------------------
\* The named-context maps of a session

\* C39: the service never inserts into a session's contexts or
\* contextMetadata Map: in every reachable state both are empty, so
\* getContext returns null for every name and listContexts returns an
\* empty list in every execute call
ClaimC39 ==
    /\ \A b \in 1..Len(browsers) :
          browsers[b].contexts = <<>> /\ browsers[b].contextMetadata = <<>>
    /\ lookup.result \in {"none", "null", "listed"}
    /\ lookup.listed = <<>>

\* the fragment wrote a live context under a name into
\* environment.persistentContexts and then looked that name up
WitnessC39 ==
    \E c \in CallIds :
        /\ calls[c].pc = "run"
        /\ ~calls[c].createdNewInstance
        /\ Len(calls[c].persistentContexts) > 0
        /\ calls[c].persistentContexts[1].live
        /\ lookup.name = calls[c].persistentContexts[1].id
        /\ lookup.result = "null"


\* ---------------------------------------------------------------------
\* The client: executeRemote

\* what a server sends on one connection, in order: the answer to the
\* secret, then the dnode frames: "M" its methods, "R" the callback with a
\* result, "X" the callback with an error
Scripts ==
    {<<"OK", NL, "M", "R">>, <<"OK", NL, "M", "X">>, <<"OK", SP, NL, "M", "R">>,
     <<"AUTH_FAILED", NL>>, <<"x", NL>>}

\* resolve / reject: a promise settles once
SettleWith(cl, how) == IF cl.promise = "pending" THEN [cl EXCEPT !.promise = how] ELSE cl

\* stream.end()
EndStream(cl) == IF cl.stream = "open" THEN [cl EXCEPT !.stream = "ended"] ELSE cl

\* the frames dnode reads from the stream: 'remote' calls remote.execute,
\* the callback ends the stream and settles the promise
RECURSIVE DnodeFeed(_, _)
DnodeFeed(cl, toks) ==
    IF toks = <<>> THEN cl
    ELSE LET tok == Head(toks)
             cl1 == IF tok = "M" THEN [cl EXCEPT !.executeCalls = @ + 1]
                    ELSE IF tok = "R" THEN SettleWith(EndStream(cl), "resolved")
                    ELSE IF tok = "X" THEN SettleWith(EndStream(cl), "rejected")
                    ELSE cl
         IN  DnodeFeed(cl1, Tail(toks))

\* stream.on('data') of executeRemote, followed by the pipe into dnode
OnClientData(cl, chunk) ==
    IF cl.authenticated THEN DnodeFeed(cl, chunk)
    ELSE LET buf == cl.authBuffer \o chunk IN
         IF ~HasNL(buf) THEN [cl EXCEPT !.authBuffer = buf]
         ELSE IF Trim(FirstLine(buf)) = <<"OK">>
         THEN DnodeFeed([cl EXCEPT !.authenticated = TRUE, !.authBuffer = <<>>,
                                   !.piped = TRUE], AfterFirstNL(buf))
         ELSE IF Trim(FirstLine(buf)) = <<"AUTH_FAILED">>
         THEN SettleWith(EndStream([cl EXCEPT !.authBuffer = buf]), "rejected")
         ELSE [cl EXCEPT !.authBuffer = buf]

clientRest == <<signal, required, pipeFirst, lookup, globalBrowser, authVars, execVars, idVars>>

\* executeRemote is called: a server URL that does not match is rejected at
\* once, otherwise the connection is opened and the timer armed
ExecuteRemote(valid, script) ==
    /\ client.promise = "none"
    /\ client' = IF valid
                 THEN [NoClient EXCEPT !.promise = "pending", !.stream = "open",
                                       !.timer = TRUE, !.script = script]
                 ELSE [NoClient EXCEPT !.promise = "rejected"]
    /\ UNCHANGED clientRest

\* a 'data' event with the next n bytes the server sent
ClientData(n) ==
    /\ client.stream \in {"open", "ended"}
    /\ client.received + n <= Len(client.script)
    /\ client' = OnClientData([client EXCEPT !.received = @ + n],
                              SubSeq(client.script, client.received + 1,
                                     client.received + n))
    /\ UNCHANGED clientRest

\* stream.on('error'), followed by 'close'
StreamError ==
    /\ client.stream \in {"open", "ended"}
    /\ client' = SettleWith([client EXCEPT !.stream = "closed"], "rejected")
    /\ UNCHANGED clientRest

\* stream.on('close') after the server closed the connection
ServerCloses ==
    /\ client.stream \in {"open", "ended"}
    /\ client' = IF client.authenticated THEN [client EXCEPT !.stream = "closed"]
                 ELSE SettleWith([client EXCEPT !.stream = "closed"], "rejected")
    /\ UNCHANGED clientRest

\* the callback of setTimeout(..., 30000)
ClientTimeout ==
    /\ client.timer
    /\ client' = IF client.authenticated THEN [client EXCEPT !.timer = FALSE]
                 ELSE SettleWith(EndStream([client EXCEPT !.timer = FALSE]), "rejected")
    /\ UNCHANGED clientRest

InitClient == Init

\* what reaches the client from the network
FromServer ==
    \/ \E n \in 1..MaxChunk : ClientData(n)
    \/ StreamError
    \/ ServerCloses

NextClient ==
    \/ \E valid \in BOOLEAN, script \in Scripts : ExecuteRemote(valid, script)
    \/ FromServer
    \/ ClientTimeout

\* the timer fires, and the network delivers or closes: a connection does
\* not stay open and silent for ever
SpecClient ==
    InitClient /\ [][NextClient]_vars /\ WF_vars(ClientTimeout) /\ WF_vars(FromServer)

\* C40: the promise returned by executeRemote always eventually settles,
\* remote.execute is called at most once and only after OK was received;
\* this includes the runs where the server closes the connection after
\* authentication but before the execute callback arrives
ClaimC40 ==
    /\ (client.promise = "pending") ~> (client.promise \in {"resolved", "rejected"})
    /\ [](client.executeCalls <= 1)
    /\ [](client.executeCalls > 0 => client.authenticated)

\* the parts of C40 about remote.execute
ExecuteOnceAfterOK ==
    /\ client.executeCalls <= 1
    /\ client.executeCalls > 0 => client.authenticated

\* the promise settles whenever the connection is not authenticated
SettlesUnlessAuthenticated ==
    (client.promise = "pending")
        ~> (client.promise \in {"resolved", "rejected"} \/ client.authenticated)

====
